---- MODULE Spec2Model ----
(***************************************************************************)
(* Error classification, analysis cache and retry engine of               *)
(* .github/actions/claude-code-runner/scripts/error_parser.py, and the    *)
(* feedback store and analyzer of feedback_optimizer.py beside it.        *)
(*                                                                         *)
(* Text is a sequence of one-character strings; regular expressions are   *)
(* data (alternatives of quantified character classes) run by a           *)
(* backtracking matcher with Python's leftmost, greedy semantics.          *)
(***************************************************************************)
EXTENDS Integers, Sequences, FiniteSets, TLC

VARIABLES
    error_message,  \* the raw message handed to classify_error
    parsed,         \* classify_error's outcome for error_message, None before the call
    cache_files,    \* ErrorCache.cache_dir: error hash -> content of <hash>.json
    now,            \* datetime.now(), in hours
    ret,            \* the last call made and what it returned
    prev_ret,       \* the call made before it
    error,          \* the ParsedError handed to the RetryManager
    hash_seed,      \* the interpreter's string-hash seed (PYTHONHASHSEED, random per process)
    retry_history,  \* RetryManager.retry_history: error id -> list of attempts
    attempt,        \* the retry loop's attempt counter
    phase,          \* the retry state machine's state for this error occurrence
    error_output,   \* the output text handed to parse_errors
    errors,         \* what parse_errors made of it, None before the call
    feedback_items  \* FeedbackDatabase: the rows of table feedback_items, by id

vars == <<error_message, parsed, cache_files, now, ret, prev_ret,
          error, hash_seed, retry_history, attempt, phase,
          error_output, errors, feedback_items>>

batch_vars == <<error_output, errors>>
feedback_vars == <<feedback_items>>

(***************************************************************************)
(* Optional values: None is the empty tuple, a present value v is <<v>>.  *)
(***************************************************************************)
None == <<>>
Some(v) == <<v>>

(***************************************************************************)
(* Characters.                                                             *)
(***************************************************************************)
UpperChars == <<"A","B","C","D","E","F","G","H","I","J","K","L","M","N","O","P","Q","R","S","T","U","V","W","X","Y","Z">>
LowerChars == <<"a","b","c","d","e","f","g","h","i","j","k","l","m","n","o","p","q","r","s","t","u","v","w","x","y","z">>
DigitChars == <<"0","1","2","3","4","5","6","7","8","9">>
Whitespace == {" ", "\n", "\t", "\r"}
Digits == {DigitChars[i] : i \in 1..Len(DigitChars)}

UpperSet == {UpperChars[i] : i \in 1..Len(UpperChars)}
LowerOf == [c \in UpperSet |-> LowerChars[CHOOSE i \in 1..Len(UpperChars) : UpperChars[i] = c]]

\* str.lower() / re.IGNORECASE folding of one character
Lower(c) == IF c \in UpperSet THEN LowerOf[c] ELSE c

DigitVal(c) == (CHOOSE i \in 1..Len(DigitChars) : DigitChars[i] = c) - 1

(***************************************************************************)
(* Regular expressions.  An item is a character class with a repetition   *)
(* range lo..hi (hi = -1: unbounded) and the capture group it lies in (0: *)
(* none).  A class is a set of characters, possibly negated.  A regex is  *)
(* a sequence of alternatives, each a sequence of items.                  *)
(***************************************************************************)
Item(set, neg, lo, hi, g) ==
    [lit |-> <<>>, set |-> set, neg |-> neg, lo |-> lo, hi |-> hi, g |-> g]
\* a literal string is one item
Lit(s)      == <<[lit |-> s, set |-> {}, neg |-> FALSE, lo |-> 1, hi |-> 1, g |-> 0]>>
DotStar     == <<Item({"\n"}, TRUE, 0, -1, 0)>>
OneOf(set)  == <<Item(set, FALSE, 1, 1, 0)>>
Many(set, neg, g) == <<Item(set, neg, 1, -1, g)>>
Rep(set, lo, hi, g) == <<Item(set, FALSE, lo, hi, g)>>
Opt(set)    == <<Item(set, FALSE, 0, -1, 0)>>

InClass(c, it, icase) ==
    (IF icase THEN \E x \in it.set : Lower(x) = Lower(c) ELSE c \in it.set) # it.neg

LitAt(s, pos, lit, icase) ==
    /\ pos + Len(lit) - 1 <= Len(s)
    /\ \A i \in 1..Len(lit) :
           IF icase THEN Lower(s[pos + i - 1]) = Lower(lit[i])
           ELSE s[pos + i - 1] = lit[i]

MinOf(set) == CHOOSE i \in set : \A j \in set : i <= j
MaxOf(set) == CHOOSE i \in set : \A j \in set : j <= i

\* given the positions pos..last whose character is outside the class, the
\* length of the run of characters inside it that starts at pos
RunUpTo(bad, pos, last) == IF bad = {} THEN last - pos + 1 ELSE MinOf(bad) - pos

LastOfRun(s, pos, it) ==
    IF it.hi < 0 \/ pos + it.hi - 1 > Len(s) THEN Len(s) ELSE pos + it.hi - 1

\* how many characters from pos on lie in the item's class, at most its hi
RunLen(s, pos, it, icase) ==
    RunUpTo({i \in pos..LastOfRun(s, pos, it) : ~InClass(s[i], it, icase)},
            pos, LastOfRun(s, pos, it))

NoCaps == [g \in 1..2 |-> <<0, 0>>]
NoMatch == [ok |-> FALSE, start |-> 0, end |-> 0, caps |-> NoCaps]

Capture(caps, g, pos, n) ==
    IF g = 0 THEN caps
    ELSE [caps EXCEPT ![g] = <<IF caps[g][1] = 0 THEN pos ELSE caps[g][1], pos + n>>]

RECURSIVE MatchFrom(_, _, _, _, _, _)
\* the rest of the pattern after item k has taken m characters
Rest(items, k, s, pos, icase, caps, m) ==
    MatchFrom(items, k + 1, s, pos + m, icase, Capture(caps, items[k].g, pos, m))

\* a repetition is greedy: of the lengths for which the rest of the pattern
\* matches, backtracking finds the longest first
Longest(items, k, s, pos, icase, caps, fits) ==
    IF fits = {} THEN NoMatch ELSE Rest(items, k, s, pos, icase, caps, MaxOf(fits))

\* items k.. matched at pos
MatchFrom(items, k, s, pos, icase, caps) ==
    IF k > Len(items) THEN [ok |-> TRUE, start |-> 0, end |-> pos, caps |-> caps]
    ELSE IF items[k].lit # <<>>
    THEN IF LitAt(s, pos, items[k].lit, icase)
         THEN MatchFrom(items, k + 1, s, pos + Len(items[k].lit), icase, caps)
         ELSE NoMatch
    ELSE Longest(items, k, s, pos, icase, caps,
                 {m \in items[k].lo..RunLen(s, pos, items[k], icase) :
                      Rest(items, k, s, pos, icase, caps, m).ok})

RECURSIVE MatchAlts(_, _, _, _, _)
\* r is alternative a's match at pos; the first alternative that matches wins
AltOr(r, regex, a, s, pos, icase) ==
    IF r.ok THEN [r EXCEPT !.start = pos] ELSE MatchAlts(regex, a + 1, s, pos, icase)

MatchAlts(regex, a, s, pos, icase) ==
    IF a > Len(regex) THEN NoMatch
    ELSE AltOr(MatchFrom(regex[a], 1, s, pos, icase, NoCaps), regex, a, s, pos, icase)

Leftmost(regex, s, icase, hits) ==
    IF hits = {} THEN NoMatch ELSE MatchAlts(regex, 1, s, MinOf(hits), icase)

\* re.search(pattern, s, flags): the match at the leftmost position that has one
re_search(regex, s, icase) ==
    Leftmost(regex, s, icase,
             {p \in 1..(Len(s) + 1) : MatchAlts(regex, 1, s, p, icase).ok})

Group(s, m, g) == SubSeq(s, m.caps[g][1], m.caps[g][2] - 1)

\* `needle in s` on strings
Contains(s, needle) == re_search(<<Lit(needle)>>, s, FALSE).ok

(***************************************************************************)
(* Strings.                                                                *)
(***************************************************************************)
RECURSIVE LStrip(_)
LStrip(s) == IF s # <<>> /\ Head(s) \in Whitespace THEN LStrip(Tail(s)) ELSE s

RECURSIVE RStrip(_)
RStrip(s) ==
    IF s # <<>> /\ s[Len(s)] \in Whitespace THEN RStrip(SubSeq(s, 1, Len(s) - 1)) ELSE s

\* str.strip()
Strip(s) == RStrip(LStrip(s))

\* str.startswith(prefix)
StartsWith(s, prefix) ==
    Len(prefix) <= Len(s) /\ SubSeq(s, 1, Len(prefix)) = prefix

\* the pieces between the separator positions `at`
Pieces(s, at, n) ==
    [k \in 1..(n + 1) |->
        SubSeq(s,
               IF k = 1 THEN 1
               ELSE (CHOOSE p \in at : Cardinality({q \in at : q < p}) = k - 2) + 1,
               IF k = n + 1 THEN Len(s)
               ELSE (CHOOSE p \in at : Cardinality({q \in at : q < p}) = k - 1) - 1)]

SeparatorsIn(s, sep) == {i \in 1..Len(s) : s[i] = sep}

\* str.split(sep) for a one-character separator
SplitOn(s, sep) == Pieces(s, SeparatorsIn(s, sep), Cardinality(SeparatorsIn(s, sep)))

RECURSIVE DigitsValue(_, _)
DigitsValue(s, acc) ==
    IF s = <<>> THEN acc ELSE DigitsValue(Tail(s), 10 * acc + DigitVal(Head(s)))

\* t is the stripped text: one sign is accepted, then only decimal digits
IntOfStripped(t, signed) ==
    IF ~(Len(t) > (IF signed THEN 1 ELSE 0)
         /\ \A i \in (IF signed THEN 2 ELSE 1)..Len(t) : t[i] \in Digits)
    THEN [raised |-> TRUE, value |-> 0]
    ELSE [raised |-> FALSE,
          value |-> IF signed /\ Head(t) = "-" THEN 0 - DigitsValue(Tail(t), 0)
                    ELSE IF signed THEN DigitsValue(Tail(t), 0)
                    ELSE DigitsValue(t, 0)]

IntOf(t) == IntOfStripped(t, t # <<>> /\ Head(t) \in {"+", "-"})

\* int(text): surrounding whitespace and one sign are accepted, anything else
\* but decimal digits raises ValueError
int(text) == IntOf(Strip(text))

(***************************************************************************)
(* ErrorSeverity, ErrorCategory (error_parser.py 20-36).                   *)
(***************************************************************************)
ErrorSeverity == {"low", "medium", "high", "critical"}
ErrorCategory == {"syntax", "dependency", "configuration", "runtime", "network",
                  "permission", "timeout", "system", "unknown"}

Rule(pattern, severity, retry, fix_time) ==
    [pattern |-> pattern, severity |-> severity, retry |-> retry, fix_time |-> fix_time]

(***************************************************************************)
(* ErrorClassifier._initialize_patterns: each category's rules, then the  *)
(* table in the dict's insertion order, which is the order                *)
(* _categorize_error iterates in.                                          *)
(***************************************************************************)
SyntaxRules == <<
    Rule(<<Lit(<<"S","y","n","t","a","x","E","r","r","o","r">>), Lit(<<"s","y","n","t","a","x"," ","e","r","r","o","r">>), Lit(<<"i","n","v","a","l","i","d"," ","s","y","n","t","a","x">>)>>,
         "high", FALSE, 300),
    Rule(<<Lit(<<"I","n","d","e","n","t","a","t","i","o","n","E","r","r","o","r">>), Lit(<<"u","n","e","x","p","e","c","t","e","d"," ","i","n","d","e","n","t">>)>>,
         "medium", FALSE, 180),
    Rule(<<Lit(<<"T","y","p","e","E","r","r","o","r">>), Lit(<<"t","y","p","e"," ","e","r","r","o","r">>)>>,
         "high", FALSE, 240) >>

DependencyRules == <<
    Rule(<<Lit(<<"M","o","d","u","l","e","N","o","t","F","o","u","n","d","E","r","r","o","r">>), Lit(<<"I","m","p","o","r","t","E","r","r","o","r">>), Lit(<<"N","o"," ","m","o","d","u","l","e"," ","n","a","m","e","d">>)>>,
         "medium", FALSE, 120),
    Rule(<<Lit(<<"p","i","p"," ","i","n","s","t","a","l","l">>) \o DotStar \o Lit(<<"f","a","i","l","e","d">>),
           Lit(<<"d","e","p","e","n","d","e","n","c","y">>) \o DotStar \o Lit(<<"n","o","t"," ","f","o","u","n","d">>)>>,
         "medium", TRUE, 180),
    Rule(<<Lit(<<"c","m","a","k","e">>) \o DotStar \o Lit(<<"n","o","t"," ","f","o","u","n","d">>),
           Lit(<<"m","a","k","e">>) \o DotStar \o Lit(<<"n","o","t"," ","f","o","u","n","d">>),
           Lit(<<"g","c","c">>) \o DotStar \o Lit(<<"n","o","t"," ","f","o","u","n","d">>)>>,
         "high", FALSE, 600) >>

ConfigurationRules == <<
    Rule(<<Lit(<<"c","o","n","f","i","g">>) \o DotStar \o Lit(<<"e","r","r","o","r">>),
           Lit(<<"c","o","n","f","i","g","u","r","a","t","i","o","n">>) \o DotStar \o Lit(<<"i","n","v","a","l","i","d">>)>>,
         "medium", FALSE, 240),
    Rule(<<Lit(<<"e","n","v","i","r","o","n","m","e","n","t">>) \o DotStar \o Lit(<<"v","a","r","i","a","b","l","e">>) \o DotStar \o Lit(<<"n","o","t"," ","s","e","t">>),
           Lit(<<"E","N","V">>) \o DotStar \o Lit(<<"m","i","s","s","i","n","g">>)>>,
         "medium", FALSE, 180) >>

NetworkRules == <<
    Rule(<<Lit(<<"C","o","n","n","e","c","t","i","o","n">>) \o DotStar \o Lit(<<"r","e","f","u","s","e","d">>),
           Lit(<<"N","e","t","w","o","r","k">>) \o DotStar \o Lit(<<"u","n","r","e","a","c","h","a","b","l","e">>),
           Lit(<<"t","i","m","e","o","u","t">>)>>,
         "medium", TRUE, 60),
    Rule(<<Lit(<<"H","T","T","P">>) \o DotStar \o OneOf({"4", "5"}) \o OneOf(Digits) \o OneOf(Digits),
           Lit(<<"r","e","q","u","e","s","t">>) \o DotStar \o Lit(<<"f","a","i","l","e","d">>)>>,
         "medium", TRUE, 90) >>

PermissionRules == <<
    Rule(<<Lit(<<"P","e","r","m","i","s","s","i","o","n">>) \o DotStar \o Lit(<<"d","e","n","i","e","d">>),
           Lit(<<"a","c","c","e","s","s">>) \o DotStar \o Lit(<<"d","e","n","i","e","d">>),
           Lit(<<"U","n","a","u","t","h","o","r","i","z","e","d">>)>>,
         "high", FALSE, 300),
    Rule(<<Lit(<<"r","e","a","d">>) \o DotStar \o Lit(<<"p","e","r","m","i","s","s","i","o","n">>),
           Lit(<<"w","r","i","t","e">>) \o DotStar \o Lit(<<"p","e","r","m","i","s","s","i","o","n">>)>>,
         "medium", FALSE, 180) >>

TimeoutRules == <<
    Rule(<<Lit(<<"t","i","m","e","o","u","t">>), Lit(<<"t","i","m","e","d"," ","o","u","t">>), Lit(<<"t","i","m","e">>) \o DotStar \o Lit(<<"o","u","t">>)>>,
         "medium", TRUE, 60) >>

RuntimeRules == <<
    Rule(<<Lit(<<"R","u","n","t","i","m","e","E","r","r","o","r">>),
           Lit(<<"r","u","n","t","i","m","e">>) \o DotStar \o Lit(<<"e","r","r","o","r">>),
           Lit(<<"e","x","e","c","u","t","i","o","n">>) \o DotStar \o Lit(<<"f","a","i","l","e","d">>)>>,
         "high", TRUE, 180),
    Rule(<<Lit(<<"A","s","s","e","r","t","i","o","n","E","r","r","o","r">>), Lit(<<"a","s","s","e","r","t">>) \o DotStar \o Lit(<<"f","a","i","l","e","d">>)>>,
         "high", FALSE, 240) >>

SystemRules == <<
    Rule(<<Lit(<<"O","u","t","O","f","M","e","m","o","r","y","E","r","r","o","r">>),
           Lit(<<"m","e","m","o","r","y">>) \o DotStar \o Lit(<<"e","r","r","o","r">>),
           Lit(<<"d","i","s","k">>) \o DotStar \o Lit(<<"f","u","l","l">>)>>,
         "critical", FALSE, 600),
    Rule(<<Lit(<<"F","i","l","e","N","o","t","F","o","u","n","d","E","r","r","o","r">>), Lit(<<"f","i","l","e">>) \o DotStar \o Lit(<<"n","o","t"," ","f","o","u","n","d">>)>>,
         "medium", FALSE, 120) >>

Rules(category, rules) == [category |-> category, rules |-> rules]

\* the table with the timeout rules ahead of the network rules
PatternsTimeoutFirst == <<
    Rules("syntax", SyntaxRules), Rules("dependency", DependencyRules),
    Rules("configuration", ConfigurationRules), Rules("timeout", TimeoutRules),
    Rules("network", NetworkRules), Rules("permission", PermissionRules),
    Rules("runtime", RuntimeRules), Rules("system", SystemRules) >>

_initialize_patterns == <<
    Rules("syntax", SyntaxRules), Rules("dependency", DependencyRules),
    Rules("configuration", ConfigurationRules), Rules("network", NetworkRules),
    Rules("permission", PermissionRules), Rules("timeout", TimeoutRules),
    Rules("runtime", RuntimeRules), Rules("system", SystemRules) >>

(***************************************************************************)
(* ErrorClassifier._extract_location.  Each pattern keeps its source text *)
(* (src), which the code inspects with `"line" in pattern`.               *)
(***************************************************************************)
LocationPatterns == <<
    [src   |-> <<"F","i","l","e"," ","\\","\"","(","[","^","\\","\"","]","+",")","\\","\"",","," ","l","i","n","e"," ","(","\\","d","+",")">>,
     regex |-> <<Lit(<<"F","i","l","e"," ","\"">>) \o Many({"\""}, TRUE, 1) \o Lit(<<"\"",","," ","l","i","n","e"," ">>)
                 \o Many(Digits, FALSE, 2)>>],
    [src   |-> <<"(","[","^","\\","s",":","]","+",")",":","(","\\","d","+",")",":">>,
     regex |-> <<Many(Whitespace \cup {":"}, TRUE, 1) \o Lit(<<":">>)
                 \o Many(Digits, FALSE, 2) \o Lit(<<":">>)>>],
    [src   |-> <<"a","t"," ","(","[","^","\\","s",":","]","+",")",":","(","\\","d","+",")">>,
     regex |-> <<Lit(<<"a","t"," ">>) \o Many(Whitespace \cup {":"}, TRUE, 1) \o Lit(<<":">>)
                 \o Many(Digits, FALSE, 2)>>],
    [src   |-> <<"l","i","n","e"," ","(","\\","d","+",")"," ","i","n"," ","(","[","^","\\","s","]","+",")">>,
     regex |-> <<Lit(<<"l","i","n","e"," ">>) \o Many(Digits, FALSE, 1) \o Lit(<<" ","i","n"," ">>)
                 \o Many(Whitespace, TRUE, 2)>>] >>

Location(file_path, line_number) ==
    [raised |-> FALSE, file_path |-> file_path, line_number |-> line_number]
LocationRaised == [raised |-> TRUE, file_path |-> None, line_number |-> None]

LocationOrRaise(path, num) ==
    IF num.raised THEN LocationRaised ELSE Location(Some(path), Some(num.value))

\* one pattern's return statement (lines 238-244): which group is the path is
\* decided by whether the pattern's text contains "line"
LocationOf(s, m, swap) ==
    LocationOrRaise(Group(s, m, IF swap THEN 2 ELSE 1),
                    int(Group(s, m, IF swap THEN 1 ELSE 2)))

RECURSIVE ExtractLocationFrom(_, _)
LocationIf(m, s, i) ==
    IF m.ok THEN LocationOf(s, m, Contains(LocationPatterns[i].src, <<"l","i","n","e">>))
    ELSE ExtractLocationFrom(s, i + 1)

ExtractLocationFrom(s, i) ==
    IF i > Len(LocationPatterns) THEN Location(None, None)
    ELSE LocationIf(re_search(LocationPatterns[i].regex, s, FALSE), s, i)

_extract_location(s) == ExtractLocationFrom(s, 1)

(***************************************************************************)
(* ErrorClassifier._extract_error_code.                                    *)
(***************************************************************************)
ErrorCodePatterns == <<
    <<OneOf({"E", "e"}) \o Lit(<<"r","r","o","r">>) \o Many(Whitespace, FALSE, 0)
      \o <<Item(UpperSet, FALSE, 1, 1, 1)>> \o Rep(Digits, 3, 4, 1)>>,
    <<OneOf({"E", "e"}) \o Lit(<<"r","r","c","o","d","e",":">>) \o Opt(Whitespace) \o Many(Digits, FALSE, 1)>>,
    <<Lit(<<"e","x","i","t">>) \o Many(Whitespace, FALSE, 0) \o Lit(<<"c","o","d","e",":">>) \o Opt(Whitespace)
      \o Many(Digits, FALSE, 1)>>,
    <<Lit(<<"s","t","a","t","u","s",":">>) \o Opt(Whitespace) \o Many(Digits, FALSE, 1)>> >>

RECURSIVE ExtractErrorCodeFrom(_, _)
ErrorCodeIf(m, s, i) ==
    IF m.ok THEN Some(Group(s, m, 1)) ELSE ExtractErrorCodeFrom(s, i + 1)

ExtractErrorCodeFrom(s, i) ==
    IF i > Len(ErrorCodePatterns) THEN None
    ELSE ErrorCodeIf(re_search(ErrorCodePatterns[i], s, FALSE), s, i)

_extract_error_code(s) == ExtractErrorCodeFrom(s, 1)

(***************************************************************************)
(* ErrorClassifier._categorize_error: the first rule that matches, in the *)
(* table's order; (unknown, medium, True, 180) when none does.            *)
(***************************************************************************)
Categorized(category, severity, retry, fix_time) ==
    [category |-> category, severity |-> severity,
     retry_recommended |-> retry, fix_time |-> fix_time]

RuleMatches(rule, s) == re_search(rule.pattern, s, TRUE).ok

RECURSIVE CategorizeFrom(_, _, _, _)
CategorizeFrom(patterns, s, c, r) ==
    IF c > Len(patterns) THEN Categorized("unknown", "medium", TRUE, 180)
    ELSE IF r > Len(patterns[c].rules) THEN CategorizeFrom(patterns, s, c + 1, 1)
    ELSE IF RuleMatches(patterns[c].rules[r], s)
         THEN Categorized(patterns[c].category, patterns[c].rules[r].severity,
                          patterns[c].rules[r].retry, patterns[c].rules[r].fix_time)
    ELSE CategorizeFrom(patterns, s, c, r + 1)

_categorize_error(s) == CategorizeFrom(_initialize_patterns, s, 1, 1)

(***************************************************************************)
(* ErrorClassifier._generate_fix_suggestion, _extract_context.            *)
(***************************************************************************)
_generate_fix_suggestion(category) ==
    CASE category = "syntax" -> "Check for syntax errors, typos, or incorrect language constructs"
      [] category = "dependency" -> "Install missing dependencies or update package versions"
      [] category = "configuration" -> "Review and fix configuration files or environment variables"
      [] category = "network" -> "Check network connectivity and firewall settings"
      [] category = "permission" -> "Verify file/directory permissions and access rights"
      [] category = "timeout" -> "Increase timeout values or optimize performance"
      [] category = "runtime" -> "Debug runtime logic and check program flow"
      [] category = "system" -> "Check system resources and disk space"
      [] category = "unknown" -> "Review error logs and investigate root cause"

Quotes == {"'", "\""}
CommandPattern ==
    <<Lit(<<"c","o","m","m","a","n","d"," ">>) \o OneOf(Quotes) \o Many(Quotes, TRUE, 1) \o OneOf(Quotes)>>
DirectoryPattern ==
    <<Lit(<<"d","i","r","e","c","t","o","r","y"," ">>) \o OneOf(Quotes) \o Many(Quotes, TRUE, 1) \o OneOf(Quotes)>>

GroupIf(s, m) == IF m.ok THEN Some(Group(s, m, 1)) ELSE None

FrameLines(lines) == {i \in 1..Len(lines) : StartsWith(Strip(lines[i]), <<"F","i","l","e">>)}

Context(traced, depth, command, directory) ==
    [has_stack_trace |-> IF traced THEN Some(TRUE) ELSE None,
     stack_depth |-> IF traced THEN Some(depth) ELSE None,
     command |-> command,
     directory |-> directory]

\* the context dict; an absent key is None
_extract_context(s) ==
    Context(Contains(s, <<"T","r","a","c","e","b","a","c","k">>),
            Cardinality(FrameLines(SplitOn(s, "\n"))),
            GroupIf(s, re_search(CommandPattern, s, FALSE)),
            GroupIf(s, re_search(DirectoryPattern, s, FALSE)))

(***************************************************************************)
(* ErrorClassifier.classify_error.  The outcome of a call is a ParsedError *)
(* or the exception that left it.                                          *)
(***************************************************************************)
Returned(v) == [raised |-> FALSE, exc |-> "", value |-> Some(v)]
Raised(exc) == [raised |-> TRUE, exc |-> exc, value |-> None]

ParsedError(s, loc, code, cat, context, fix) ==
    [raw_message |-> s,
     category |-> cat.category,
     severity |-> cat.severity,
     file_path |-> loc.file_path,
     line_number |-> loc.line_number,
     error_code |-> code,
     context |-> context,
     suggested_fix |-> fix,
     retry_recommended |-> cat.retry_recommended,
     estimated_fix_time |-> Some(cat.fix_time)]

\* int() raising in _extract_location leaves classify_error before anything
\* else is computed
ClassifiedWith(s, loc, cat) ==
    IF loc.raised THEN Raised("ValueError")
    ELSE Returned(ParsedError(s, loc, _extract_error_code(s), cat,
                              _extract_context(s),
                              Some(_generate_fix_suggestion(cat.category))))

classify_error(s) == ClassifiedWith(s, _extract_location(s), _categorize_error(s))

(***************************************************************************)
(* ErrorCache (error_parser.py 409-491): one JSON file per error hash.    *)
(* A file is what json.dump managed to write: the timestamp, then the     *)
(* error_data members in field order up to the first value the encoder    *)
(* refuses, and whether the document was completed.                        *)
(***************************************************************************)
CacheTtlHours == 24

\* the dataclass fields of ParsedError in declaration order, which is the order
\* asdict() yields and json.dump writes them in
ParsedErrorFields == <<
    [name |-> "raw_message",        type |-> "str"],
    [name |-> "category",           type |-> "ErrorCategory"],
    [name |-> "severity",           type |-> "ErrorSeverity"],
    [name |-> "file_path",          type |-> "Optional[str]"],
    [name |-> "line_number",        type |-> "Optional[int]"],
    [name |-> "error_code",         type |-> "Optional[str]"],
    [name |-> "context",            type |-> "Optional[Dict]"],
    [name |-> "suggested_fix",      type |-> "Optional[str]"],
    [name |-> "retry_recommended",  type |-> "bool"],
    [name |-> "estimated_fix_time", type |-> "Optional[int]"] >>

\* json's encoder takes str, int, float, bool, None, list and dict; asdict()
\* leaves an Enum member as it is, and the encoder raises TypeError on it
JsonEncodable(type) == type \notin {"ErrorCategory", "ErrorSeverity"}

\* the number of error_data members written before the encoder stops
Encoded(n) == \A i \in 1..n : JsonEncodable(ParsedErrorFields[i].type)
WrittenFields ==
    CHOOSE n \in 0..Len(ParsedErrorFields) :
        /\ Encoded(n)
        /\ n < Len(ParsedErrorFields) => ~Encoded(n + 1)

\* md5(error_message).hexdigest(): a digest that tells the messages apart
_get_error_hash(message) == <<"md5", message>>

\* json.dump({"timestamp": ..., "error_data": asdict(error)}, f, indent=2)
JsonDump(e, time) ==
    [timestamp  |-> time,
     error_data |-> [i \in 1..WrittenFields |->
                        <<ParsedErrorFields[i].name, e[ParsedErrorFields[i].name]>>],
     complete   |-> WrittenFields = Len(ParsedErrorFields)]

Member(data, name) == data[CHOOSE i \in 1..Len(data) : data[i][1] = name][2]

\* A cache directory without search permission is written as the directory
\* that holds the entry NoAccess: every stat() and open() of a path in it
\* fails with PermissionError
NoAccess == <<"EACCES", <<>>>>
Denied(files) == NoAccess \in DOMAIN files

\* ErrorCache.cache_analysis: open(cache_path, 'w') creates or truncates the
\* file, json.dump writes into it, and an exception is logged, not raised
cache_analysis(files, e, time) ==
    IF Denied(files) THEN files                     \* open raises, caught
    ELSE (_get_error_hash(e.raw_message) :> JsonDump(e, time)) @@ files

Unlink(files, h) == [k \in DOMAIN files \ {h} |-> files[k]]

\* a lookup that answers every message that has a record with a ParsedError
\* of category unknown
CachedAsUnknown(files, message, time) ==
    IF _get_error_hash(message) \in DOMAIN files /\ ~classify_error(message).raised
    THEN [raised |-> FALSE,
          result |-> Some([classify_error(message).value[1] EXCEPT !.category = "unknown"]),
          files |-> files]
    ELSE [raised |-> FALSE, result |-> None, files |-> files]

\* ErrorCache.get_cached_analysis: the ParsedError returned (or None) and the
\* cache directory afterwards; cache_path.exists() (line 430) stands before
\* the try block, and the PermissionError of its stat() is propagated
get_cached_analysis(files, message, time) ==
    LET h == _get_error_hash(message)
    IN IF Denied(files) THEN [raised |-> TRUE, result |-> None, files |-> files]
       ELSE IF h \notin DOMAIN files THEN [raised |-> FALSE, result |-> None, files |-> files]
       ELSE IF ~files[h].complete                 \* json.load raises, caught
            THEN [raised |-> FALSE, result |-> None, files |-> files]
       ELSE IF time - files[h].timestamp > CacheTtlHours
            THEN [raised |-> FALSE, result |-> None, files |-> Unlink(files, h)]
       ELSE [raised |-> FALSE,
             result |-> Some([f \in {ParsedErrorFields[i].name :
                                     i \in 1..Len(ParsedErrorFields)} |->
                                 Member(files[h].error_data, f)]),
             files |-> files]

\* ErrorCache.cleanup_expired_cache: files that load and are older than the
\* TTL are removed; a file that does not load is left where it is
cleanup_expired_cache(files, time) ==
    IF Denied(files) THEN files                     \* glob yields nothing
    ELSE
    [h \in {k \in DOMAIN files :
               ~(files[k].complete /\ time - files[k].timestamp > CacheTtlHours)}
        |-> files[h]]

(***************************************************************************)
(* Inputs: a raw message is a concatenation of at most MaxParts parts.    *)
(***************************************************************************)
MaxParts == 2
MaxClock == 36
TickHours == 12

ScenarioA == <<"S","y","n","t","a","x","E","r","r","o","r",":"," ","i","n","v","a","l","i","d"," ","s","y","n","t","a","x"," ","(","a","p","p",".","p","y",","," ","l","i","n","e"," ","1","0",")">>
ScenarioB == <<"C","o","n","n","e","c","t","i","o","n"," ","r","e","f","u","s","e","d",":"," ","t","i","m","e","o","u","t"," ","a","f","t","e","r"," ","3","0","s">>
TraceLine == <<"F","i","l","e"," ","\"","a","p","p",".","p","y","\"",","," ","l","i","n","e"," ","1","0">>

MessageParts == <<
    ScenarioA, ScenarioB, TraceLine,
    <<"F","i","l","e"," ","\"","1","2","\"",","," ","l","i","n","e"," ","3">>, <<"a","p","p",".","p","y",":","1","0",":"," ">>, <<"a","t"," ","l","i","b",".","p","y",":","7">>, <<"l","i","n","e"," ","3"," ","i","n"," ","r","u","n",".","s","h">>,
    <<"T","I","M","E","O","U","T">>, <<"t","i","m","e","d"," ","o","u","t">>, <<"\n">> >>

RECURSIVE Join(_)
Join(ps) == IF ps = <<>> THEN <<>> ELSE MessageParts[Head(ps)] \o Join(Tail(ps))

Messages ==
    {Join(ps) : ps \in UNION {[1..k -> 1..Len(MessageParts)] : k \in 0..MaxParts}}

NoCall == [op |-> "none", at |-> 0, attempt |-> 0, out |-> None]
Call(op, time, out) == [op |-> op, at |-> time, attempt |-> 0, out |-> out]

(***************************************************************************)
(* Specification of the classifier and its cache: one raw message is      *)
(* classified, cached and looked up while the clock advances.             *)
(***************************************************************************)
BatchIdle ==
    /\ error_output = <<>>
    /\ errors = None

FeedbackIdle == feedback_items = <<>>

RetryIdle ==
    /\ prev_ret = NoCall
    /\ error = None
    /\ hash_seed = 0
    /\ retry_history = <<>>
    /\ attempt = 0
    /\ phase = "UNTRIED"

Init ==
    /\ error_message \in Messages
    /\ parsed = None
    /\ cache_files = <<>>
    /\ now = 0
    /\ ret = NoCall
    /\ RetryIdle
    /\ BatchIdle
    /\ FeedbackIdle

retry_vars == <<prev_ret, error, hash_seed, retry_history, attempt, phase>>

\* ErrorClassifier.classify_error(error_message)
ClassifyError ==
    /\ parsed = None
    /\ ret' = Call("classify_error", now, classify_error(error_message))
    /\ parsed' = Some(ret'.out)
    /\ UNCHANGED <<error_message, cache_files, now, retry_vars, batch_vars, feedback_vars>>

\* ErrorCache.cache_analysis(parsed error)
CacheAnalysis ==
    /\ parsed # None
    /\ ~parsed[1].raised
    /\ cache_files' = cache_analysis(cache_files, parsed[1].value[1], now)
    /\ ret' = Call("cache_analysis", now, None)
    /\ UNCHANGED <<error_message, parsed, now, retry_vars, batch_vars, feedback_vars>>

\* ErrorCache.get_cached_analysis(error_message)
GetCachedAnalysis ==
    /\ LET r == get_cached_analysis(cache_files, error_message, now)
       IN /\ cache_files' = r.files
          /\ ret' = Call("get_cached_analysis", now, r.result)
    /\ UNCHANGED <<error_message, parsed, now, retry_vars, batch_vars, feedback_vars>>

\* ErrorCache.cleanup_expired_cache()
CleanupExpiredCache ==
    /\ cache_files' = cleanup_expired_cache(cache_files, now)
    /\ ret' = Call("cleanup_expired_cache", now, None)
    /\ UNCHANGED <<error_message, parsed, now, retry_vars, batch_vars, feedback_vars>>

\* time passes; the clock starts when the message has been classified
Tick ==
    /\ parsed # None
    /\ now + TickHours <= MaxClock
    /\ now' = now + TickHours
    /\ UNCHANGED <<error_message, parsed, cache_files, ret, retry_vars, batch_vars, feedback_vars>>

Next ==
    \/ ClassifyError
    \/ CacheAnalysis
    \/ GetCachedAnalysis
    \/ CleanupExpiredCache
    \/ Tick

Spec == Init /\ [][Next]_vars

(***************************************************************************)
(* RetryManager (error_parser.py 321-406).  Delays are exact fractions    *)
(* [n, d] of seconds; the exponential bases 1.5 and 2.5 are 3/2 and 5/2,  *)
(* so the powers the code computes in floating point are exact here too.  *)
(***************************************************************************)
RetryStrategy(max_attempts, base_delay, max_delay, base_num, base_den, jitter) ==
    [max_attempts |-> max_attempts, base_delay |-> base_delay,
     max_delay |-> max_delay,
     exponential_base |-> [n |-> base_num, d |-> base_den], jitter |-> jitter]

\* RetryManager.__init__: self.strategies
strategies ==
    [c \in ErrorCategory |->
        CASE c = "syntax"        -> RetryStrategy(1, 0, 0, 1, 1, FALSE)
          [] c = "dependency"    -> RetryStrategy(3, 2, 30, 2, 1, TRUE)
          [] c = "configuration" -> RetryStrategy(2, 1, 10, 3, 2, TRUE)
          [] c = "network"       -> RetryStrategy(5, 1, 60, 2, 1, TRUE)
          [] c = "permission"    -> RetryStrategy(1, 0, 0, 1, 1, FALSE)
          [] c = "timeout"       -> RetryStrategy(3, 5, 120, 5, 2, TRUE)
          [] c = "runtime"       -> RetryStrategy(3, 2, 45, 2, 1, TRUE)
          [] c = "system"        -> RetryStrategy(2, 5, 180, 2, 1, TRUE)
          [] c = "unknown"       -> RetryStrategy(3, 1, 30, 2, 1, TRUE)]

\* a lookup that answers with the unknown-category strategy for every error
UnknownStrategyAlways(e) == strategies["unknown"]

\* RetryManager.get_retry_strategy: strategies.get(category, strategies[UNKNOWN])
get_retry_strategy(e) ==
    IF e.category \in DOMAIN strategies THEN strategies[e.category]
    ELSE strategies["unknown"]

\* should_retry without its early return on retry_recommended
ShouldRetryIgnoringFlag(e, a) == a < get_retry_strategy(e).max_attempts

\* should_retry allowing one attempt more: attempt <= max_attempts
ShouldRetryOneMore(e, a) ==
    IF ~e.retry_recommended THEN FALSE ELSE a <= get_retry_strategy(e).max_attempts

\* RetryManager.should_retry
should_retry(e, a) ==
    IF ~e.retry_recommended THEN FALSE ELSE a < get_retry_strategy(e).max_attempts

RECURSIVE Pow(_, _)
Pow(b, k) == IF k = 0 THEN 1 ELSE b * Pow(b, k - 1)

Frac(n, d) == [n |-> n, d |-> d]
FracLeq(x, y) == x.n * y.d <= y.n * x.d
FracEq(x, y) == x.n * y.d = y.n * x.d

RECURSIVE Gcd(_, _)
Gcd(a, b) == IF b = 0 THEN a ELSE Gcd(b, a % b)

\* the fraction x (x.n >= 0, x.d > 0) in lowest terms
Reduced(x) == Frac(x.n \div Gcd(x.n, x.d), x.d \div Gcd(x.n, x.d))

\* the backoff with the cap applied to the base delay instead of the product
UncappedGrowth(s, a) ==
    Frac((IF s.base_delay <= s.max_delay THEN s.base_delay ELSE s.max_delay)
             * Pow(s.exponential_base.n, a),
         Pow(s.exponential_base.d, a))

\* calculate_delay lines 356-357: min(base_delay * exponential_base ** attempt,
\* max_delay)
CappedDelay(s, a) ==
    IF s.base_delay * Pow(s.exponential_base.n, a)
           <= s.max_delay * Pow(s.exponential_base.d, a)
    THEN Frac(s.base_delay * Pow(s.exponential_base.n, a), Pow(s.exponential_base.d, a))
    ELSE Frac(s.max_delay, 1)

(***************************************************************************)
(* hash(str): CPython salts the string hash with a key drawn when the     *)
(* interpreter starts, so the value is fixed within a process and differs *)
(* between processes.  The keyed hash is stood in for by a 16-bit         *)
(* polynomial hash started from the seed; its value is signed, as a       *)
(* Py_hash_t is.                                                           *)
(***************************************************************************)
IndexIn(chars, c) == CHOOSE i \in 1..Len(chars) : chars[i] = c

\* ord(c) for the characters of the messages hashed here
Ord(c) ==
    IF c \in Digits THEN 47 + IndexIn(DigitChars, c)
    ELSE IF c \in UpperSet THEN 64 + IndexIn(UpperChars, c)
    ELSE IF \E i \in 1..Len(LowerChars) : LowerChars[i] = c
         THEN 96 + IndexIn(LowerChars, c)
    ELSE IF c = ":" THEN 58
    ELSE 32

RECURSIVE HashFrom(_, _)
HashFrom(h, s) ==
    IF s = <<>> THEN h ELSE HashFrom((h * 31 + Ord(Head(s))) % 65536, Tail(s))

hash(seed, s) == HashFrom((seed * 7919 + 5381) % 65536, s) - 32768

RECURSIVE str(_)
\* str(n) for n >= 0
str(n) == IF n < 10 THEN <<DigitChars[n + 1]>> ELSE str(n \div 10) \o <<DigitChars[(n % 10) + 1]>>

\* lines 359-364: delay + (h % 1000) / 1000 * (delay * 0.25) - (delay * 0.25) / 2,
\* which is delay * (3500 + h % 1000) / 4000, then max(0, delay)
\* the result is kept in lowest terms, so equal delays are equal records
Jittered(c, h) ==
    IF c.n * (3500 + (h % 1000)) < 0 THEN Frac(0, 1)
    ELSE Reduced(Frac(c.n * (3500 + (h % 1000)), c.d * 4000))

DelayOf(s, e, a, seed) ==
    IF s.jitter THEN Jittered(CappedDelay(s, a), hash(seed, e.raw_message \o str(a)))
    ELSE IF CappedDelay(s, a).n < 0 THEN Frac(0, 1) ELSE CappedDelay(s, a)

\* RetryManager.calculate_delay
calculate_delay(e, a, seed) == DelayOf(get_retry_strategy(e), e, a, seed)

\* RetryManager.record_retry_attempt
record_retry_attempt(history, error_id, a, success, time) ==
    (error_id :> Append(IF error_id \in DOMAIN history THEN history[error_id] ELSE <<>>,
                        [attempt |-> a, success |-> success, timestamp |-> time]))
        @@ history

(***************************************************************************)
(* Inputs of the RetryManager: one ParsedError of any category, with      *)
(* either retry flag.                                                      *)
(***************************************************************************)
MaxAttempt == 7
MaxSeed == 1

RetryMessages == {<<"t","i","m","e","d"," ","o","u","t">>}

\* the fields of a ParsedError that the RetryManager reads
Errors ==
    [raw_message : RetryMessages, category : ErrorCategory, retry_recommended : BOOLEAN]

RetryCall(op, a, out) == [op |-> op, at |-> 0, attempt |-> a, out |-> out]

ClassifierIdle ==
    /\ error_message = <<>>
    /\ parsed = None
    /\ cache_files = <<>>
    /\ now = 0

InitRetry ==
    /\ ClassifierIdle
    /\ BatchIdle
    /\ FeedbackIdle
    /\ ret = NoCall
    /\ prev_ret = NoCall
    /\ error \in Errors
    /\ hash_seed \in 0..MaxSeed
    /\ retry_history = <<>>
    /\ attempt = 0
    /\ phase = "UNTRIED"

classifier_vars == <<error_message, parsed, cache_files, now>>

(***************************************************************************)
(* Specification of the retry decisions: should_retry is called for one   *)
(* error with any attempt number.                                          *)
(***************************************************************************)
\* RetryManager.should_retry(error, a)
ShouldRetry(a) ==
    /\ ret' = RetryCall("should_retry", a, should_retry(error, a))
    /\ prev_ret' = ret
    /\ UNCHANGED <<classifier_vars, error, hash_seed, retry_history, attempt, phase, batch_vars, feedback_vars>>

NextRetry == \E a \in 0..MaxAttempt : ShouldRetry(a)

SpecRetry == InitRetry /\ [][NextRetry]_vars

(***************************************************************************)
(* Specification of the retry loop over one error occurrence:             *)
(*   attempt = 0                                                           *)
(*   while should_retry(error, attempt):                                   *)
(*       make an attempt; record_retry_attempt(id, attempt, success)       *)
(*       if success: RESOLVED, stop                                        *)
(*       attempt += 1                                                      *)
(*   EXHAUSTED                                                             *)
(* The loop runs on once started (weak fairness of its steps).            *)
(***************************************************************************)
ErrorId == error.raw_message

\* the loop test fails: no (further) attempt is made
Exhaust ==
    /\ phase \in {"UNTRIED", "RETRYING"}
    /\ ~should_retry(error, attempt)
    /\ phase' = "EXHAUSTED"
    /\ UNCHANGED <<classifier_vars, ret, prev_ret, error, hash_seed, retry_history, attempt, batch_vars, feedback_vars>>

\* the loop test holds: one attempt is made and recorded
Attempt(success) ==
    /\ phase \in {"UNTRIED", "RETRYING"}
    /\ should_retry(error, attempt)
    /\ retry_history' = record_retry_attempt(retry_history, ErrorId, attempt, success, now)
    /\ IF success
       THEN phase' = "RESOLVED" /\ attempt' = attempt
       ELSE phase' = "RETRYING" /\ attempt' = attempt + 1
    /\ UNCHANGED <<classifier_vars, ret, prev_ret, error, hash_seed, batch_vars, feedback_vars>>

NextLoop ==
    \/ Exhaust
    \/ \E success \in BOOLEAN : Attempt(success)

SpecLoop == InitRetry /\ [][NextLoop]_vars /\ WF_vars(NextLoop)

(***************************************************************************)
(* Specification of the retry delays: calculate_delay is called for one   *)
(* error with any attempt number, in one interpreter process after        *)
(* another.                                                                *)
(***************************************************************************)
\* RetryManager.calculate_delay(error, a); the capped delay of line 357 is kept
\* beside the value returned
CalculateDelay(a) ==
    /\ ret' = [op |-> "calculate_delay", at |-> 0, attempt |-> a,
               out |-> calculate_delay(error, a, hash_seed),
               capped |-> CappedDelay(get_retry_strategy(error), a)]
    /\ prev_ret' = ret
    /\ UNCHANGED <<classifier_vars, error, hash_seed, retry_history, attempt, phase, batch_vars, feedback_vars>>

\* the tool is run again: a new interpreter with its own hash seed and an
\* empty retry_history
StartProcess(seed) ==
    /\ seed # hash_seed
    /\ hash_seed' = seed
    /\ retry_history' = <<>>
    /\ UNCHANGED <<classifier_vars, ret, prev_ret, error, attempt, phase, batch_vars, feedback_vars>>

NextDelay ==
    \/ \E a \in 0..MaxAttempt : CalculateDelay(a)
    \/ \E seed \in 0..MaxSeed : StartProcess(seed)

SpecDelay == InitRetry /\ [][NextDelay]_vars

(***************************************************************************)
(* Properties of the retry decisions (SpecRetry) and of the retry loop     *)
(* (SpecLoop).                                                             *)
(***************************************************************************)
\* C1: should_retry(error, attempt) returns false for every error whose
\* retry_recommended is false, whatever the attempt number and the category:
\* no retry is granted to such an error.
C1_NoRetryUnlessRecommended ==
    (ret.op = "should_retry" /\ ~error.retry_recommended) => ret.out = FALSE

C1_Witness ==
    /\ ~error.retry_recommended
    /\ error.category = "network"
    /\ ret.op = "should_retry" /\ ret.attempt = 0 /\ ret.out = FALSE
    /\ prev_ret.op = "should_retry" /\ prev_ret.attempt = MaxAttempt /\ prev_ret.out = FALSE

\* the attempts recorded for the error driven through the retry loop
Recorded ==
    IF ErrorId \in DOMAIN retry_history THEN retry_history[ErrorId] ELSE <<>>

\* the strategy the claims name for a category: the category's own entry of
\* the table, the unknown-category entry when it has none
StrategyFor(category) ==
    IF category \in DOMAIN strategies THEN strategies[category] ELSE strategies["unknown"]

Succeeded(history) == \E i \in 1..Len(history) : history[i].success

C7_LoopSafety ==
    /\ phase \in {"UNTRIED", "RETRYING", "RESOLVED", "EXHAUSTED"}
    /\ Len(Recorded) <= StrategyFor(error.category).max_attempts
    /\ \A i \in 1..Len(Recorded) : Recorded[i].attempt = i - 1
    /\ phase = "RESOLVED" <=> Succeeded(Recorded)
    /\ phase = "RESOLVED" => Recorded[Len(Recorded)].success
    /\ (phase = "EXHAUSTED" /\ error.retry_recommended) =>
           Len(Recorded) = StrategyFor(error.category).max_attempts
    /\ ~error.retry_recommended =>
           /\ phase \in {"UNTRIED", "EXHAUSTED"}
           /\ Recorded = <<>>
           /\ attempt = 0

\* C7: the retry loop over one error occurrence (attempt from 0; while
\* should_retry holds an attempt is made and recorded, a success ends it as
\* RESOLVED, a failure increments attempt) always ends, and stays, in RESOLVED
\* or EXHAUSTED after at most max_attempts attempts; EXHAUSTED comes with
\* max_attempts failed attempts, or with none when retry_recommended is false.
C7_RetryLoopEnds ==
    /\ []C7_LoopSafety
    /\ <>[](phase \in {"RESOLVED", "EXHAUSTED"})

C7_Witness ==
    /\ phase = "EXHAUSTED"
    /\ error.retry_recommended
    /\ error.category = "network"
    /\ Len(Recorded) = 5
    /\ ~Succeeded(Recorded)

\* C8: for an error with retry_recommended true, should_retry(error, attempt)
\* is true exactly when attempt < max_attempts of the strategy of the error's
\* category (the unknown-category strategy when the category has no entry).
C8_RetryWhileBelowMaxAttempts ==
    (ret.op = "should_retry" /\ error.retry_recommended) =>
        (ret.out <=> ret.attempt < StrategyFor(error.category).max_attempts)

C8_Witness ==
    /\ error.retry_recommended
    /\ error.category = "syntax"
    /\ ret.op = "should_retry" /\ ret.attempt = 1 /\ ret.out = FALSE
    /\ prev_ret.op = "should_retry" /\ prev_ret.attempt = 0 /\ prev_ret.out = TRUE

(***************************************************************************)
(* Properties of the retry delays (SpecDelay).                            *)
(***************************************************************************)
\* base_delay * exponential_base ^ attempt
Backoff(s, a) ==
    Frac(s.base_delay * Pow(s.exponential_base.n, a), Pow(s.exponential_base.d, a))

FracMin(x, y) == IF FracLeq(x, y) THEN x ELSE y

BothDelays == ret.op = "calculate_delay" /\ prev_ret.op = "calculate_delay"

\* C9: without the jitter term the delay is
\* min(base_delay * exponential_base ^ attempt, max_delay); for one error it
\* never decreases as attempt grows, and once it has reached max_delay it
\* stays there; a strategy without jitter returns exactly this delay.
C9_CappedBackoffMonotone ==
    ret.op = "calculate_delay" =>
        /\ FracEq(ret.capped,
                  FracMin(Backoff(StrategyFor(error.category), ret.attempt),
                          Frac(StrategyFor(error.category).max_delay, 1)))
        /\ ~StrategyFor(error.category).jitter => FracEq(ret.out, ret.capped)
        /\ (BothDelays /\ prev_ret.attempt <= ret.attempt) =>
               /\ FracLeq(prev_ret.capped, ret.capped)
               /\ FracEq(prev_ret.capped, Frac(StrategyFor(error.category).max_delay, 1))
                      => FracEq(ret.capped, prev_ret.capped)

C9_Witness ==
    /\ BothDelays
    /\ error.category = "network"
    /\ prev_ret.attempt = 5 /\ FracEq(prev_ret.capped, Frac(32, 1))
    /\ ret.attempt = 7 /\ FracEq(ret.capped, Frac(60, 1))

\* C10: with jitter enabled, calculate_delay(error, attempt) is within 12.5% of
\* the capped delay on either side, is never negative, and depends on
\* (raw_message, attempt) alone: two calls with the same message and attempt
\* return the same delay.
C10_JitterBoundedAndReproducible ==
    (ret.op = "calculate_delay" /\ StrategyFor(error.category).jitter) =>
        /\ 8 * (ret.out.n * ret.capped.d - ret.capped.n * ret.out.d)
               <= ret.capped.n * ret.out.d
        /\ 8 * (ret.capped.n * ret.out.d - ret.out.n * ret.capped.d)
               <= ret.capped.n * ret.out.d
        /\ ret.out.n >= 0 /\ ret.out.d > 0
        /\ (BothDelays /\ prev_ret.attempt = ret.attempt) => prev_ret.out = ret.out

(***************************************************************************)
(* Properties of the classifier and its cache (Spec).                     *)
(***************************************************************************)
Classified == ret.op = "classify_error" /\ ~ret.out.raised

\* C2: classify_error returns a ParsedError for every input string, trace
\* lines and path references included: it never raises, and the category and
\* the severity of the result are members of their enumerations.
C2_ClassifyErrorTotal ==
    ret.op = "classify_error" =>
        /\ ~ret.out.raised
        /\ ret.out.value # None
        /\ ret.out.value[1].category \in ErrorCategory
        /\ ret.out.value[1].severity \in ErrorSeverity

\* C3: Scenario A, "SyntaxError: invalid syntax (app.py, line 10)", is
\* classified as syntax, high, retry_recommended false, with a file_path that
\* contains "app.py" and line_number 10.
C3_ScenarioA ==
    (ret.op = "classify_error" /\ error_message = ScenarioA) =>
        /\ ~ret.out.raised
        /\ ret.out.value[1].category = "syntax"
        /\ ret.out.value[1].severity = "high"
        /\ ret.out.value[1].retry_recommended = FALSE
        /\ ret.out.value[1].file_path # None
        /\ Contains(ret.out.value[1].file_path[1], <<"a","p","p",".","p","y">>)
        /\ ret.out.value[1].line_number = Some(10)

\* the rule table in the order the claim gives: category by category, each
\* category's rules in declaration order
Tagged(category, rules) ==
    [i \in 1..Len(rules) |-> [category |-> category, rule |-> rules[i]]]

ClaimedOrder ==
    Tagged("syntax", SyntaxRules) \o Tagged("dependency", DependencyRules)
        \o Tagged("configuration", ConfigurationRules) \o Tagged("network", NetworkRules)
        \o Tagged("permission", PermissionRules) \o Tagged("timeout", TimeoutRules)
        \o Tagged("runtime", RuntimeRules) \o Tagged("system", SystemRules)

MatchingRules(s) == {i \in 1..Len(ClaimedOrder) : RuleMatches(ClaimedOrder[i].rule, s)}

Supplied(t) == Categorized(t.category, t.rule.severity, t.rule.retry, t.rule.fix_time)

FirstMatch(hits) ==
    IF hits = {} THEN Categorized("unknown", "medium", TRUE, 180)
    ELSE Supplied(ClaimedOrder[MinOf(hits)])

ResultOf(e) ==
    Categorized(e.category, e.severity, e.retry_recommended, e.estimated_fix_time[1])

\* C4: the category, severity, retry_recommended and fix time of a result are
\* those of the first rule, in the order syntax, dependency, configuration,
\* network, permission, timeout, runtime, system and declaration order inside
\* a category, whose pattern matches the message case-insensitively, later
\* matches notwithstanding; (unknown, medium, true, 180) when no rule matches;
\* "Connection refused: timeout after 30s" is network, medium, true.
C4_FirstMatchInTableOrder ==
    Classified =>
        /\ ResultOf(ret.out.value[1]) = FirstMatch(MatchingRules(error_message))
        /\ error_message = ScenarioB =>
               /\ ret.out.value[1].category = "network"
               /\ ret.out.value[1].severity = "medium"
               /\ ret.out.value[1].retry_recommended = TRUE

C4_Witness ==
    /\ Classified
    /\ error_message = ScenarioB
    /\ ret.out.value[1].category = "network"
    /\ RuleMatches(TimeoutRules[1], error_message)

\* the cache file of the message, when there is one
Cached == _get_error_hash(error_message) \in DOMAIN cache_files
CachedAt == cache_files[_get_error_hash(error_message)].timestamp

\* C5: get_cached_analysis(e.raw_message), called after cache_analysis(e) and
\* before 24 hours have passed since, returns a ParsedError equal to e in
\* every field.
C5_CacheRoundTrip ==
    (ret.op = "get_cached_analysis" /\ Cached /\ ret.at - CachedAt < CacheTtlHours) =>
        ret.out = parsed[1].value

\* C6: a get_cached_analysis for a message whose entry was written more than
\* 24 hours before returns absent and removes the entry: after a lookup an
\* entry that is still there is at most 24 hours old, and so is one that was
\* returned.
C6_ExpiredEntryEvicted ==
    ret.op = "get_cached_analysis" =>
        /\ Cached => ret.at - CachedAt <= CacheTtlHours
        /\ ret.out # None => Cached

(***************************************************************************)
(* AdvancedErrorParser (error_parser.py 494-626): a batch of errors is    *)
(* split out of one output text, classified through the cache, and the    *)
(* retry decision and delay are taken over the whole batch.               *)
(***************************************************************************)
RECURSIVE re_split(_, _)
\* m is the leftmost match of the separator in s
SplitAt(regex, s, m) ==
    IF ~m.ok THEN <<s>>
    ELSE <<SubSeq(s, 1, m.start - 1)>> \o re_split(regex, SubSeq(s, m.end, Len(s)))

\* re.split(separator, s) for a separator without groups that matches no
\* empty string
re_split(regex, s) == SplitAt(regex, s, re_search(regex, s, FALSE))

\* _split_error_messages: separators, in the order they are applied
Separators == <<
    <<Lit(<<"\n">>) \o Opt(Whitespace) \o Lit(<<"\n">>)>>,
    <<Lit(<<";">>) \o Opt(Whitespace)>>,
    <<Lit(<<"|">>) \o Opt(Whitespace)>>,
    <<Lit(<<"-","-","-">>) \o Opt({"-"})>> >>

RECURSIVE SplitAll(_, _)
\* new_messages: every message split on one separator
SplitAll(regex, messages) ==
    IF messages = <<>> THEN <<>>
    ELSE re_split(regex, Head(messages)) \o SplitAll(regex, Tail(messages))

RECURSIVE StripAll(_)
\* [m.strip() for m in new_messages if m.strip()]
StripAll(messages) ==
    IF messages = <<>> THEN <<>>
    ELSE (IF Strip(Head(messages)) = <<>> THEN <<>> ELSE <<Strip(Head(messages))>>)
             \o StripAll(Tail(messages))

RECURSIVE SplitFrom(_, _)
SplitFrom(k, messages) ==
    IF k > Len(Separators) THEN messages
    ELSE SplitFrom(k + 1, StripAll(SplitAll(Separators[k], messages)))

\* AdvancedErrorParser._split_error_messages
_split_error_messages(output) == SplitFrom(1, <<Strip(output)>>)

\* what parse_errors leaves: the list it returns unless classify_error raised,
\* and the cache directory
Parsed(raised, errs, files) == [raised |-> raised, errors |-> errs, files |-> files]

RECURSIVE ParseFrom(_, _, _, _, _)
\* the message was not in the cache: c is what classify_error did
ParseClassified(messages, i, files, time, acc, c) ==
    IF c.raised THEN Parsed(TRUE, <<>>, files)
    ELSE ParseFrom(messages, i + 1, cache_analysis(files, c.value[1], time), time,
                   Append(acc, c.value[1]))

\* one turn of the loop: cached is what get_cached_analysis answered
ParseOne(messages, i, time, acc, cached) ==
    IF cached.raised THEN Parsed(TRUE, <<>>, cached.files)
    ELSE IF cached.result # None
    THEN ParseFrom(messages, i + 1, cached.files, time, Append(acc, cached.result[1]))
    ELSE ParseClassified(messages, i, cached.files, time, acc, classify_error(messages[i]))

ParseFrom(messages, i, files, time, acc) ==
    IF i > Len(messages) THEN Parsed(FALSE, acc, files)
    ELSE ParseOne(messages, i, time, acc, get_cached_analysis(files, messages[i], time))

\* AdvancedErrorParser.parse_errors
parse_errors(files, output, time) ==
    ParseFrom(_split_error_messages(output), 1, files, time, <<>>)

\* the retry decision with every error of the batch required to permit retry
ShouldRetryAll(errs, a) ==
    errs # <<>> /\ \A i \in 1..Len(errs) : should_retry(errs[i], a)

\* AdvancedErrorParser.should_retry_execution
should_retry_execution(errs, a) ==
    errs # <<>> /\ \E i \in 1..Len(errs) : should_retry(errs[i], a)

\* x < y on fractions, by whole parts first
FracLess(x, y) ==
    IF x.n \div x.d # y.n \div y.d THEN x.n \div x.d < y.n \div y.d
    ELSE (x.n % x.d) * y.d < (y.n % y.d) * x.d

\* max(max_delay, delay)
FracMax(x, y) == IF FracLess(x, y) THEN y ELSE x

RECURSIVE MinDelayFrom(_, _, _, _, _)
\* the delay of the loop with min in place of max
MinDelayFrom(errs, i, a, seed, low) ==
    IF i > Len(errs) THEN low
    ELSE MinDelayFrom(errs, i + 1, a, seed,
                      IF i = 1 \/ FracLess(calculate_delay(errs[i], a, seed), low)
                      THEN calculate_delay(errs[i], a, seed) ELSE low)

RECURSIVE MaxDelayFrom(_, _, _, _, _)
\* the loop of calculate_retry_delay, from error i on
MaxDelayFrom(errs, i, a, seed, max_delay) ==
    IF i > Len(errs) THEN max_delay
    ELSE MaxDelayFrom(errs, i + 1, a, seed,
                      FracMax(max_delay, calculate_delay(errs[i], a, seed)))

\* AdvancedErrorParser.calculate_retry_delay
calculate_retry_delay(errs, a, seed) ==
    IF errs = <<>> THEN Frac(0, 1) ELSE MaxDelayFrom(errs, 1, a, seed, Frac(0, 1))

(***************************************************************************)
(* Inputs: an output text lists messages with a blank line between one    *)
(* and the next: every list of at most MaxErrors messages, and every list *)
(* of the five messages of a Scenario C batch.                            *)
(***************************************************************************)
MaxErrors == 3

BatchMessages == <<
    <<"T","I","M","E","O","U","T">>, <<"t","i","m","e","d"," ","o","u","t">>, <<"d","i","s","k"," ","f","u","l","l">> >>

RECURSIVE JoinLines(_)
JoinLines(ps) ==
    IF ps = <<>> THEN <<>>
    ELSE IF Len(ps) = 1 THEN BatchMessages[Head(ps)]
    ELSE BatchMessages[Head(ps)] \o <<"\n","\n">> \o JoinLines(Tail(ps))

ScenarioOutputs == {JoinLines(ps) : ps \in [1..5 -> 1..Len(BatchMessages)]}

ShortOutputs ==
    {JoinLines(ps) : ps \in UNION {[1..k -> 1..Len(BatchMessages)] : k \in 0..MaxErrors}}

Outputs == ShortOutputs \cup ScenarioOutputs

InitBatch ==
    /\ ClassifierIdle
    /\ FeedbackIdle
    /\ error_output \in Outputs
    /\ errors = None
    /\ ret = NoCall
    /\ prev_ret = NoCall
    /\ error = None
    /\ hash_seed = 0
    /\ retry_history = <<>>
    /\ attempt = 0
    /\ phase = "UNTRIED"

\* AdvancedErrorParser.parse_errors(error_output)
ParseErrors ==
    /\ errors = None
    /\ ret' = Call("parse_errors", now, parse_errors(cache_files, error_output, now))
    /\ errors' = Some(ret'.out)
    /\ cache_files' = ret'.out.files
    /\ UNCHANGED <<error_message, parsed, now, prev_ret, error, hash_seed, retry_history, attempt,
                   phase, error_output, feedback_vars>>

\* AdvancedErrorParser.should_retry_execution(errors, a)
ShouldRetryExecution(a) ==
    /\ errors # None
    /\ ~errors[1].raised
    /\ ret' = RetryCall("should_retry_execution", a,
                        should_retry_execution(errors[1].errors, a))
    /\ UNCHANGED <<classifier_vars, prev_ret, error, hash_seed, retry_history, attempt, phase,
                   batch_vars, feedback_vars>>

\* AdvancedErrorParser.calculate_retry_delay(errors, a)
CalculateRetryDelay(a) ==
    /\ errors # None
    /\ ~errors[1].raised
    /\ ret' = RetryCall("calculate_retry_delay", a,
                        calculate_retry_delay(errors[1].errors, a, hash_seed))
    /\ UNCHANGED <<classifier_vars, prev_ret, error, hash_seed, retry_history, attempt, phase,
                   batch_vars, feedback_vars>>

NextBatch ==
    \/ ParseErrors
    \/ \E a \in 0..MaxAttempt : ShouldRetryExecution(a)
    \/ \E a \in 0..MaxAttempt : CalculateRetryDelay(a)

SpecBatch == InitBatch /\ [][NextBatch]_vars

(***************************************************************************)
(* main() (error_parser.py 628-679): one run of the script on an error    *)
(* file.  argv is sys.argv[2:], exists tells whether the file is there.   *)
(***************************************************************************)
\* lines 635-638: retry_attempt = 0, replaced by int(sys.argv[3]) when
\* sys.argv[2] is the flag and a value follows
RetryAttemptOf(argv) ==
    IF Len(argv) > 0 /\ argv[1] = <<"-","-","r","e","t","r","y","-","a","t","t","e","m","p","t">> /\ Len(argv) > 1
    THEN int(argv[2])
    ELSE [raised |-> FALSE, value |-> 0]

Exited(exit_code, p) == [exit_code |-> exit_code, parsed |-> p]

\* lines 644-679: an exception of parse_errors is caught and exits with 1
MainParsed(p, a) ==
    Exited(IF p.raised THEN 1
           ELSE IF p.errors = <<>> \/ should_retry_execution(p.errors, a) THEN 0 ELSE 1,
           Some(p))

\* the ValueError of int() is raised outside the try block and ends the
\* interpreter with exit code 1, as does the missing file
main(files, argv, exists, output, time) ==
    IF RetryAttemptOf(argv).raised \/ ~exists THEN Exited(1, None)
    ELSE MainParsed(parse_errors(files, output, time), RetryAttemptOf(argv).value)

ArgvTails ==
    {<<>>, <<<<"-","-","r","e","t","r","y","-","a","t","t","e","m","p","t">>>>, <<<<"-","-","r","e","t","r","y","-","a","t","t","e","m","p","t">>, <<"a","b","c">>>>, <<<<"-","-","v","e","r","b","o","s","e">>, <<"1">>>>}
        \cup {<<<<"-","-","r","e","t","r","y","-","a","t","t","e","m","p","t">>, str(n)>> : n \in 0..MaxAttempt}

MainOutputs ==
    ShortOutputs \cup {TraceLine, BatchMessages[1] \o <<"\n","\n">> \o TraceLine}

InitMain ==
    /\ ClassifierIdle
    /\ FeedbackIdle
    /\ error_output \in MainOutputs
    /\ errors = None
    /\ ret = NoCall
    /\ prev_ret = NoCall
    /\ error = None
    /\ hash_seed = 0
    /\ retry_history = <<>>
    /\ attempt = 0
    /\ phase = "UNTRIED"

MainCall(argv, exists, out) ==
    [op |-> "main", at |-> now, attempt |-> 0, argv |-> argv, exists |-> exists, out |-> out]

\* python error_parser.py <file> argv...
Main(argv, exists) ==
    /\ errors = None
    /\ ret' = MainCall(argv, exists, main(cache_files, argv, exists, error_output, now))
    /\ errors' = ret'.out.parsed
    /\ cache_files' = IF ret'.out.parsed = None THEN cache_files ELSE ret'.out.parsed[1].files
    /\ UNCHANGED <<error_message, parsed, now, prev_ret, error, hash_seed, retry_history, attempt,
                   phase, error_output, feedback_vars>>

NextMain == \E argv \in ArgvTails, exists \in BOOLEAN : Main(argv, exists)

SpecMain == InitMain /\ [][NextMain]_vars

(***************************************************************************)
(* Properties of the batch decisions (SpecBatch).                         *)
(***************************************************************************)
\* the batch parse_errors returned
Batch == errors[1].errors

\* the errors of the batch that should_retry lets through at attempt a
Retryable(a) == {i \in 1..Len(Batch) : should_retry(Batch[i], a)}

\* C11: should_retry_execution(errors, attempt) is true exactly when at least
\* one error of the batch satisfies should_retry(error, attempt): an error that
\* may not be retried does not block the others, and an empty batch gives
\* false.
C11_RetryIfAnyErrorRetries ==
    ret.op = "should_retry_execution" =>
        /\ ret.out <=> Retryable(ret.attempt) # {}
        /\ Batch = <<>> => ret.out = FALSE

C11_Witness ==
    /\ ret.op = "should_retry_execution"
    /\ ret.attempt = 0
    /\ ret.out = TRUE
    /\ Retryable(0) # {}
    /\ \E i \in 1..Len(Batch) : ~Batch[i].retry_recommended

\* the delay of each error of the batch
Delays(a) == {calculate_delay(Batch[i], a, hash_seed) : i \in 1..Len(Batch)}

\* C12: calculate_retry_delay(errors, attempt) is the greatest of the delays
\* calculate_delay(error, attempt) of the errors of the batch, and 0 for an
\* empty batch.
C12_DelayIsBatchMaximum ==
    ret.op = "calculate_retry_delay" =>
        IF Batch = <<>> THEN ret.out = Frac(0, 1)
        ELSE /\ ret.out \in Delays(ret.attempt)
             /\ \A d \in Delays(ret.attempt) : ~FracLess(ret.out, d)

C12_Witness ==
    /\ ret.op = "calculate_retry_delay"
    /\ ret.attempt = 1
    /\ Cardinality(Delays(1)) = 3
    /\ \E d \in Delays(1) : FracLess(d, ret.out)

\* the errors of the batch with retry_recommended true
Recommended == {i \in 1..Len(Batch) : Batch[i].retry_recommended}

\* Scenario C: the output listed five messages, three of them classified as
\* retryable and two as not
ScenarioC ==
    /\ error_output \in ScenarioOutputs
    /\ errors # None
    /\ ~errors[1].raised
    /\ Cardinality(Recommended) = 3

\* C13 as stated: for five errors separated by blank lines, three retryable and
\* two not, parse_errors yields five ParsedErrors,
\* should_retry_execution(errors, 0) is true and calculate_retry_delay(errors, 0)
\* is the greatest delay of the three retryable errors.
C13_DelayOfRetryableErrors ==
    ScenarioC =>
        /\ Len(Batch) = 5
        /\ (ret.op = "should_retry_execution" /\ ret.attempt = 0) => ret.out = TRUE
        /\ (ret.op = "calculate_retry_delay" /\ ret.attempt = 0) =>
               /\ ret.out \in {calculate_delay(Batch[i], 0, hash_seed) : i \in Recommended}
               /\ \A i \in Recommended :
                      ~FracLess(ret.out, calculate_delay(Batch[i], 0, hash_seed))

\* C13, amended: for five errors separated by blank lines (their messages free
\* of the separators ; | and ---), three retryable and two not, parse_errors
\* yields five ParsedErrors, should_retry_execution(errors, 0) is true and
\* calculate_retry_delay(errors, 0) is the greatest delay of all five errors,
\* which is never below the greatest delay of the three retryable ones.
C13_DelayOfWholeBatch ==
    ScenarioC =>
        /\ Len(Batch) = 5
        /\ (ret.op = "should_retry_execution" /\ ret.attempt = 0) => ret.out = TRUE
        /\ (ret.op = "calculate_retry_delay" /\ ret.attempt = 0) =>
               /\ ret.out \in Delays(0)
               /\ \A d \in Delays(0) : ~FracLess(ret.out, d)

C13_Witness ==
    /\ ScenarioC
    /\ ret.op = "calculate_retry_delay" /\ ret.attempt = 0
    /\ \A i \in Recommended : Batch[i].category = "network"
    /\ \A i \in Recommended : FracLess(calculate_delay(Batch[i], 0, hash_seed), ret.out)

\* a run of main on a file that is there, with a command line that gives no
\* attempt or a decimal one
MainRan ==
    /\ ret.op = "main"
    /\ ret.out.exit_code \in {0, 1}
    /\ ret.exists
    /\ Len(ret.argv) = 2 => \A i \in 1..Len(ret.argv[2]) : ret.argv[2][i] \in Digits

\* the attempt the command line asks for: the value after --retry-attempt, 0
\* when none is supplied
Asked == IF Len(ret.argv) = 2 /\ ret.argv[1] = <<"-","-","r","e","t","r","y","-","a","t","t","e","m","p","t">> THEN int(ret.argv[2]).value ELSE 0

\* C14: main exits with code 0 exactly when the parsed error list is empty or
\* should_retry_execution(errors, retry_attempt) is true, and with code 1 when
\* errors exist and none is retryable at the given attempt; retry_attempt is
\* the value of --retry-attempt, 0 when it is not supplied.
C14_ExitCodeFollowsBatch ==
    MainRan =>
        /\ errors # None
        /\ ~errors[1].raised
        /\ ret.out.exit_code = 0 <=>
               (Batch = <<>> \/ should_retry_execution(Batch, Asked))

\* the same, for the runs in which parse_errors returned a list
C14_ExitCodeWhenParsed ==
    (MainRan /\ errors # None /\ ~errors[1].raised) =>
        (ret.out.exit_code = 0 <=> (Batch = <<>> \/ should_retry_execution(Batch, Asked)))


(***************************************************************************)
(* FeedbackAnalyzer._generate_pattern_key (feedback_optimizer.py 345-361). *)
(***************************************************************************)
\* str.lower()
lower(s) == [i \in 1..Len(s) |-> Lower(s[i])]

RECURSIVE re_sub(_, _, _)
SubAt(regex, repl, s, m) ==
    IF ~m.ok THEN s
    ELSE SubSeq(s, 1, m.start - 1) \o repl \o re_sub(regex, repl, SubSeq(s, m.end, Len(s)))

\* re.sub(pattern, repl, s) for a pattern that looks at no character outside
\* its match
re_sub(regex, repl, s) == SubAt(regex, repl, s, re_search(regex, s, FALSE))

\* \w
WordChar(c) ==
    c \in Digits \/ c \in UpperSet \/ c = "_" \/ \E i \in 1..Len(LowerChars) : LowerChars[i] = c

\* the last digit of the run of digits that starts at i
DigitRunEnd(s, i) == MinOf({j \in i..(Len(s) + 1) : j = Len(s) + 1 \/ s[j] \notin Digits}) - 1

\* where \b\d+\b matches: at a run of digits with no word character before
\* its first digit and none after its last
NumStarts(s) ==
    {i \in 1..Len(s) :
        /\ s[i] \in Digits
        /\ i = 1 \/ ~WordChar(s[i - 1])
        /\ DigitRunEnd(s, i) = Len(s) \/ ~WordChar(s[DigitRunEnd(s, i) + 1])}

RECURSIVE SubNumsFrom(_, _)
SubNumAt(s, pos, starts) ==
    IF starts = {} THEN SubSeq(s, pos, Len(s))
    ELSE SubSeq(s, pos, MinOf(starts) - 1) \o <<"_","_","N","U","M","_","_">>
             \o SubNumsFrom(s, DigitRunEnd(s, MinOf(starts)) + 1)

\* re.sub(r'\b\d+\b', '__NUM__', s), from position pos on
SubNumsFrom(s, pos) == SubNumAt(s, pos, {i \in NumStarts(s) : i >= pos})

\* r'/[^/\s]+'
FilePattern == <<Lit(<<"/">>) \o Many({"/"} \cup Whitespace, TRUE, 0)>>
\* r'"[^"]*"' and r"'[^']*'"
Quoted(q) == <<Lit(<<q>>) \o <<Item({q}, TRUE, 0, -1, 0)>> \o Lit(<<q>>)>>

\* lines 348-354: lower case, then paths, numbers and quoted literals replaced
Normalized(message) ==
    re_sub(Quoted("'"), <<"_","_","S","T","R","I","N","G","_","_">>,
           re_sub(Quoted("\""), <<"_","_","S","T","R","I","N","G","_","_">>,
                  SubNumsFrom(re_sub(FilePattern, <<"_","_","F","I","L","E","_","_">>, lower(message)), 1)))

\* hashlib.md5(text.encode()).hexdigest()[:16]: the digest is kept symbolic,
\* one digest per text
md5_hexdigest16(text) == [md5 |-> text]

_generate_pattern_key(message) ==
    md5_hexdigest16(Strip(re_sub(<<Many(Whitespace, FALSE, 0)>>, <<" ">>, Normalized(message))))

(***************************************************************************)
(* Inputs: messages made of a leading word, a path and a tail with a line *)
(* number and a quoted literal.                                           *)
(***************************************************************************)
KeyWords == {<<"E","r","r","o","r"," ","i","n"," ">>, <<"f","a","u","l","t"," ","i","n"," ">>}
KeyPaths == {<<"/","s","r","c","/","a",".","p","y">>, <<"/","l","i","b","/","b",".","p","y">>, <<"s","r","c","/","a",".","p","y">>, <<"l","i","b","/","b",".","p","y">>}
KeyTails == {<<" ","l","i","n","e"," ","1","0",":"," ","'","f","o","o","'">>, <<" ","l","i","n","e"," ","2",":"," ","'","f","o","o","'">>, <<" ","l","i","n","e"," ","1","0",":"," ","\"","x"," ","y","\"">>}
KeyMessages == {w \o p \o t : w \in KeyWords, p \in KeyPaths, t \in KeyTails}

KeyCall(message, out) ==
    [op |-> "_generate_pattern_key", at |-> 0, attempt |-> 0, message |-> message, out |-> out]

InitKey ==
    /\ ClassifierIdle
    /\ BatchIdle
    /\ FeedbackIdle
    /\ RetryIdle
    /\ ret = NoCall

\* FeedbackAnalyzer._generate_pattern_key(message)
GeneratePatternKey(message) ==
    /\ ret' = KeyCall(message, _generate_pattern_key(message))
    /\ prev_ret' = ret
    /\ UNCHANGED <<classifier_vars, error, hash_seed, retry_history, attempt, phase,
                   batch_vars, feedback_vars>>

NextKey == \E message \in KeyMessages : GeneratePatternKey(message)

SpecKey == InitKey /\ [][NextKey]_vars

(***************************************************************************)
(* Properties of the pattern key (SpecKey).                               *)
(***************************************************************************)
BothKeys == ret.op = "_generate_pattern_key" /\ prev_ret.op = "_generate_pattern_key"

\* the message as a leading word, a path and a tail
PartsOf(message) ==
    CHOOSE parts \in KeyWords \X KeyPaths \X KeyTails :
        message = parts[1] \o parts[2] \o parts[3]

\* two messages that differ at most in a path, a standalone number or a
\* quoted literal: the messages of KeyMessages with the same leading word
SameStructure(m1, m2) == PartsOf(m1)[1] = PartsOf(m2)[1]

\* C15: _generate_pattern_key gives one pattern id to two messages that differ
\* only in a file path (absolute or relative), a standalone number or a quoted
\* literal, and different ids to messages whose surrounding words differ.
C15_KeyIgnoresPathsNumbersLiterals ==
    BothKeys =>
        /\ SameStructure(prev_ret.message, ret.message) => prev_ret.out = ret.out
        /\ PartsOf(prev_ret.message)[1] # PartsOf(ret.message)[1] => prev_ret.out # ret.out

(***************************************************************************)
(* FeedbackDatabase, FeedbackAnalyzer.identify_patterns and               *)
(* FeedbackLoopOptimizer (feedback_optimizer.py).  A row keeps the fields *)
(* id, message, severity, timestamp, resolution_time and resolved of a    *)
(* FeedbackItem; timestamps are in hours, resolution times in seconds.    *)
(*                                                                         *)
(* The call FeedbackItem(...) in get_feedback (lines 211-225) gives the   *)
(* keyword argument resolution_time twice.  Python rejects this when it   *)
(* compiles the file ("SyntaxError: keyword argument repeated"), so as    *)
(* the file stands no function of it can run.  Here the error is kept to  *)
(* the function that contains it: get_feedback raises SyntaxError, its    *)
(* callers propagate it, and every other function does what its body says.*)
(***************************************************************************)
FeedbackItem(id, message, severity, timestamp) ==
    [id |-> id, message |-> message, severity |-> severity, timestamp |-> timestamp,
     resolution_time |-> None, resolved |-> FALSE]

\* INSERT OR REPLACE INTO feedback_items
store_feedback(rows, feedback) ==
    [i \in DOMAIN rows \cup {feedback.id} |-> IF i = feedback.id THEN feedback ELSE rows[i]]

get_feedback(rows, limit, start_time, end_time) == Raised("SyntaxError")

\* the keys of the items in the order of their first occurrence
RECURSIVE KeysOf(_, _)
KeysOf(items, seen) ==
    IF items = <<>> THEN seen
    ELSE KeysOf(Tail(items),
                IF \E i \in 1..Len(seen) : seen[i] = _generate_pattern_key(Head(items).message)
                THEN seen ELSE Append(seen, _generate_pattern_key(Head(items).message)))

GroupOf(items, key) ==
    SelectSeq(items, LAMBDA item : _generate_pattern_key(item.message) = key)

\* items[:n]
FirstItems(items, n) == SubSeq(items, 1, IF Len(items) < n THEN Len(items) ELSE n)

AutoResolvablePatterns == <<
    <<"m","i","s","s","i","n","g"," ","i","m","p","o","r","t">>, <<"u","n","d","e","f","i","n","e","d"," ","v","a","r","i","a","b","l","e">>, <<"t","y","p","o">>, <<"i","n","d","e","n","t","a","t","i","o","n">>,
    <<"s","y","n","t","a","x"," ","e","r","r","o","r">>, <<"m","i","s","s","i","n","g"," ","d","e","p","e","n","d","e","n","c","y">>, <<"f","i","l","e"," ","n","o","t"," ","f","o","u","n","d">> >>

_is_auto_resolvable(items) ==
    \E p \in 1..Len(AutoResolvablePatterns) : \E i \in 1..Len(FirstItems(items, 5)) :
        Contains(lower(items[i].message), AutoResolvablePatterns[p])

AnyMentions(items, word) ==
    \E i \in 1..Len(FirstItems(items, 10)) : Contains(lower(items[i].message), word)

_generate_suggested_action(items) ==
    IF items = <<>> THEN None
    ELSE IF AnyMentions(items, <<"i","m","p","o","r","t">>)
    THEN Some("Add missing import statements or fix module paths")
    ELSE IF AnyMentions(items, <<"d","e","p","e","n","d","e","n","c","y">>)
    THEN Some("Update dependencies or install missing packages")
    ELSE IF AnyMentions(items, <<"s","y","n","t","a","x">>) THEN Some("Fix syntax errors in source code")
    ELSE IF AnyMentions(items, <<"t","e","s","t">>)
    THEN Some("Update test cases or fix test configuration")
    ELSE IF AnyMentions(items, <<"s","e","c","u","r","i","t","y">>) THEN Some("Address security vulnerabilities")
    ELSE Some("Review and address recurring issues")

RECURSIVE SumOfTimes(_)
SumOfTimes(items) ==
    IF items = <<>> THEN 0 ELSE Head(items).resolution_time[1] + SumOfTimes(Tail(items))

FeedbackPattern(pattern_id, frequency, avg_time, success_rate, auto_resolvable, action) ==
    [pattern_id |-> pattern_id, frequency |-> frequency,
     avg_resolution_time |-> avg_time, success_rate |-> success_rate,
     auto_resolvable |-> auto_resolvable, suggested_action |-> action]

\* item.resolved and item.resolution_time
ResolvedItems(items) ==
    SelectSeq(items, LAMBDA item :
        item.resolved /\ item.resolution_time # None /\ item.resolution_time # Some(0))

\* first_seen and last_seen are left out
AnalyzedWith(pattern_id, items, resolved_items) ==
    FeedbackPattern(pattern_id, Len(items),
                    IF resolved_items = <<>> THEN None
                    ELSE Some(Frac(SumOfTimes(resolved_items), Len(resolved_items))),
                    Frac(Len(resolved_items), Len(items)),
                    _is_auto_resolvable(items), _generate_suggested_action(items))

_analyze_pattern(pattern_id, items) == AnalyzedWith(pattern_id, items, ResolvedItems(items))

AnalyzedPatterns(items, keys) ==
    [k \in 1..Len(keys) |-> _analyze_pattern(keys[k], GroupOf(items, keys[k]))]

\* lines 323-332, on what get_feedback gave
PatternsOf(g) ==
    IF g.raised THEN g ELSE Returned(AnalyzedPatterns(g.value[1], KeysOf(g.value[1], <<>>)))

\* FeedbackAnalyzer.identify_patterns(time_window)
identify_patterns(rows, time, time_window) ==
    PatternsOf(get_feedback(rows, 10000, time - time_window, time))

\* f"feedback_{int(time.time())}_{hash(message) % 10000}"
FeedbackId(time, seed, message) == [time |-> time, hash |-> hash(seed, message) % 10000]

\* FeedbackLoopOptimizer.add_feedback: the id and the table afterwards
add_feedback(rows, message, severity, time, seed) ==
    [id |-> FeedbackId(time, seed, message),
     rows |-> store_feedback(rows, FeedbackItem(FeedbackId(time, seed, message),
                                                message, severity, time))]

\* FeedbackLoopOptimizer.mark_resolved: the table afterwards (the body is pass)
mark_resolved(rows, feedback_id, resolution_time) == rows

(***************************************************************************)
(* Inputs: the items of Scenario D, "Missing import 'foo' in module X"    *)
(* with ten module names, submitted one after the other with severities   *)
(* inside and outside [0, 1].                                             *)
(***************************************************************************)
ModuleNames == <<"a","b","c","d","e","f","g","h","i","j">>
ScenarioD == [k \in 1..Len(ModuleNames) |->
                 <<"M","i","s","s","i","n","g"," ","i","m","p","o","r","t"," ","'","f","o","o","'"," ","i","n"," ","m","o","d","u","l","e"," ">> \o <<ModuleNames[k]>>]
Severities == <<Frac(1, 2), Frac(3, 2), Frac(0 - 1, 2)>>
SeverityOf(k) == Severities[((k - 1) % Len(Severities)) + 1]
Windows == {7 * 24, 30 * 24}
UnknownId == [time |-> 0, hash |-> 10000]
ResolutionTimes == {None, Some(30)}

FeedbackCall(op, args, out) == [op |-> op, at |-> now, attempt |-> 0, args |-> args, out |-> out]

InitFeedback ==
    /\ ClassifierIdle
    /\ BatchIdle
    /\ FeedbackIdle
    /\ RetryIdle
    /\ ret = NoCall

\* add_feedback(message, ..., severity)
AddFeedback(message, severity) ==
    /\ ret' = FeedbackCall("add_feedback", <<message, severity>>,
                           add_feedback(feedback_items, message, severity, now, hash_seed).id)
    /\ feedback_items' = add_feedback(feedback_items, message, severity, now, hash_seed).rows
    /\ UNCHANGED <<error_message, parsed, cache_files, now, retry_vars, batch_vars>>

\* mark_resolved(feedback_id, resolution_time)
MarkResolved(feedback_id, resolution_time) ==
    /\ feedback_items' = mark_resolved(feedback_items, feedback_id, resolution_time)
    /\ ret' = FeedbackCall("mark_resolved", <<feedback_id, resolution_time>>, None)
    /\ UNCHANGED <<error_message, parsed, cache_files, now, retry_vars, batch_vars>>

\* FeedbackDatabase.get_feedback(limit, start_time, end_time)
GetFeedback(time_window) ==
    /\ ret' = FeedbackCall("get_feedback", <<time_window>>,
                           get_feedback(feedback_items, 1000, now - time_window, now))
    /\ UNCHANGED <<error_message, parsed, cache_files, now, retry_vars, batch_vars, feedback_vars>>

\* FeedbackAnalyzer.identify_patterns(time_window)
IdentifyPatterns(time_window) ==
    /\ ret' = FeedbackCall("identify_patterns", <<time_window>>,
                           identify_patterns(feedback_items, now, time_window))
    /\ UNCHANGED <<error_message, parsed, cache_files, now, retry_vars, batch_vars, feedback_vars>>

\* time passes between the calls
Elapse ==
    /\ now + TickHours <= MaxClock
    /\ now' = now + TickHours
    /\ UNCHANGED <<error_message, parsed, cache_files, ret, retry_vars, batch_vars, feedback_vars>>

NextFeedback ==
    \/ \E k \in {Cardinality(DOMAIN feedback_items) + 1} \cap (1..Len(ModuleNames)) :
           AddFeedback(ScenarioD[k], SeverityOf(k))
    \/ \E feedback_id \in DOMAIN feedback_items \cup {UnknownId},
          resolution_time \in ResolutionTimes : MarkResolved(feedback_id, resolution_time)
    \/ \E time_window \in Windows : GetFeedback(time_window)
    \/ \E time_window \in Windows : IdentifyPatterns(time_window)
    \/ Elapse

SpecFeedback == InitFeedback /\ [][NextFeedback]_vars

(***************************************************************************)
(* Properties of the feedback store and of the pattern analysis           *)
(* (SpecFeedback).                                                        *)
(***************************************************************************)
\* the stored items whose timestamp lies in the window of the last
\* identify_patterns call
InWindow ==
    {i \in DOMAIN feedback_items :
        /\ ret.at - ret.args[1] <= feedback_items[i].timestamp
        /\ feedback_items[i].timestamp <= ret.at}

\* the ten items of Scenario D are stored
ScenarioDStored ==
    /\ Cardinality(DOMAIN feedback_items) = Len(ModuleNames)
    /\ \A k \in 1..Len(ModuleNames) :
           \E i \in DOMAIN feedback_items : feedback_items[i].message = ScenarioD[k]

\* C16: Scenario D, ten items "Missing import 'foo' in module X" (X varying)
\* stored within 7 days: identify_patterns over a 7-day window returns exactly
\* one pattern, with frequency 10, auto_resolvable true and a suggested_action
\* that mentions imports.
C16_ScenarioD ==
    (ret.op = "identify_patterns" /\ ret.args = <<7 * 24>> /\ ScenarioDStored) =>
        /\ ~ret.out.raised
        /\ Len(ret.out.value[1]) = 1
        /\ ret.out.value[1][1].frequency = Len(ModuleNames)
        /\ ret.out.value[1][1].auto_resolvable
        /\ ret.out.value[1][1].suggested_action
               = Some("Add missing import statements or fix module paths")

InUnitRange(x) == FracLeq(Frac(0, 1), x) /\ FracLeq(x, Frac(1, 1))

\* C18: every stored severity and every success_rate of a returned pattern
\* lies in [0, 1]; a severity given outside the range is stored clamped.
C18_ValuesInUnitRange ==
    /\ \A i \in DOMAIN feedback_items : InUnitRange(feedback_items[i].severity)
    /\ (ret.op = "identify_patterns" /\ ~ret.out.raised) =>
           \A p \in 1..Len(ret.out.value[1]) : InUnitRange(ret.out.value[1][p].success_rate)

RECURSIVE SumOfFrequencies(_)
SumOfFrequencies(patterns) ==
    IF patterns = <<>> THEN 0 ELSE Head(patterns).frequency + SumOfFrequencies(Tail(patterns))

\* C19: identify_patterns returns, for each pattern, a frequency equal to the
\* number of stored items of the window whose message has the pattern's key,
\* and the frequencies add up to the number of stored items of the window.
C19_FrequenciesCountWindowItems ==
    ret.op = "identify_patterns" =>
        /\ ~ret.out.raised
        /\ \A p \in 1..Len(ret.out.value[1]) :
               ret.out.value[1][p].frequency =
                   Cardinality({i \in InWindow :
                       _generate_pattern_key(feedback_items[i].message)
                           = ret.out.value[1][p].pattern_id})
        /\ SumOfFrequencies(ret.out.value[1]) = Cardinality(InWindow)

\* C20: after mark_resolved(i, t) the stored item i is still there, has
\* resolved true and resolution_time t.
C20_MarkResolvedRecorded ==
    (ret.op = "mark_resolved" /\ ret.args[1] \in DOMAIN feedback_items) =>
        /\ feedback_items[ret.args[1]].resolved
        /\ feedback_items[ret.args[1]].resolution_time = ret.args[2]

\* C21: get_feedback returns exactly the stored items that satisfy the filters
\* supplied (here the timestamps from start_time to end_time, no type and no
\* source), newest first, at most `limit` of them, each with the field values
\* that were stored.
C21_FilteredNewestFirst ==
    ret.op = "get_feedback" =>
        /\ ~ret.out.raised
        /\ {ret.out.value[1][k].id : k \in 1..Len(ret.out.value[1])} = InWindow
        /\ Len(ret.out.value[1]) = Cardinality(InWindow)
        /\ \A k \in 1..Len(ret.out.value[1]) :
               ret.out.value[1][k] = feedback_items[ret.out.value[1][k].id]
        /\ \A k \in 2..Len(ret.out.value[1]) :
               ret.out.value[1][k].timestamp <= ret.out.value[1][k - 1].timestamp

(***************************************************************************)
(* FeedbackAnalyzer.generate_optimization_recommendations                 *)
(* (feedback_optimizer.py 440-506).  A recommendation keeps its id,       *)
(* priority, estimated_impact, implementation_effort and category.        *)
(***************************************************************************)
FracTimes(x, y) == Reduced(Frac(x.n * y.n, x.d * y.d))
FracLeast(x, y) == IF FracLess(y, x) THEN y ELSE x

\* `if pattern.avg_resolution_time:`: neither None nor 0
HasResolutionTime(pattern) ==
    pattern.avg_resolution_time # None /\ pattern.avg_resolution_time[1].n # 0

\* frequency * (1 - success_rate)
Unresolved(pattern) ==
    Frac(pattern.frequency * (pattern.success_rate.d - pattern.success_rate.n),
         pattern.success_rate.d)

\* lines 467-469, before the cap: (frequency / 100) * (1 - success_rate), times
\* min(avg_resolution_time / 3600, 2) when there is a resolution time
Weighted(pattern) ==
    IF HasResolutionTime(pattern)
    THEN FracTimes(FracTimes(Frac(1, 100), Unresolved(pattern)),
                   FracLeast(FracTimes(pattern.avg_resolution_time[1], Frac(1, 3600)),
                             Frac(2, 1)))
    ELSE FracTimes(Frac(1, 100), Unresolved(pattern))

_determine_category(pattern) ==
    IF pattern.frequency > 20 THEN "Critical Process"
    ELSE IF pattern.frequency > 10 THEN "High-Impact Issue"
    ELSE IF FracLess(pattern.success_rate, Frac(1, 2)) THEN "Resolution Failure"
    ELSE "Recurring Issue"

OptimizationRecommendation(pattern) ==
    [id |-> <<"opt", pattern.pattern_id>>,
     priority |-> FracLeast(Weighted(pattern), Frac(1, 1)),
     estimated_impact |-> FracLeast(Reduced(Frac(pattern.frequency, 50)), Frac(1, 1)),
     implementation_effort |-> IF pattern.auto_resolvable THEN Frac(3, 10) ELSE Frac(7, 10),
     category |-> _determine_category(pattern)]

\* lines 466-506: with a resolution time, line 488 reads the undefined name
\* time_save and raises NameError
RecommendationFor(pattern) ==
    IF HasResolutionTime(pattern) THEN Raised("NameError")
    ELSE Returned(Some(OptimizationRecommendation(pattern)))

\* the recommendation made without regard to the frequency
CreateRecommendationAlways(pattern) == RecommendationFor(pattern)

\* FeedbackAnalyzer._create_recommendation
_create_recommendation(pattern) ==
    IF pattern.frequency < 3 THEN Returned(None) ELSE RecommendationFor(pattern)

\* sorted(seq, key=..., reverse=True): by decreasing key, equal keys in the
\* order they had
SortedDescending(seq, keys) ==
    [i \in 1..Len(seq) |->
        seq[CHOOSE a \in 1..Len(seq) :
               Cardinality({b \in 1..Len(seq) :
                   \/ FracLess(keys[a], keys[b])
                   \/ ~FracLess(keys[b], keys[a]) /\ b < a}) = i - 1]]

RECURSIVE RecommendFrom(_, _, _)
\* the loop of lines 450-453 from pattern i on: an exception ends it
RecommendNext(patterns, i, acc, r) ==
    IF r.raised THEN r
    ELSE RecommendFrom(patterns, i + 1, IF r.value[1] = None THEN acc ELSE Append(acc, r.value[1][1]))

RecommendFrom(patterns, i, acc) ==
    IF i > Len(patterns)
    THEN Returned(SortedDescending(acc, [k \in 1..Len(acc) |-> acc[k].priority]))
    ELSE RecommendNext(patterns, i, acc, _create_recommendation(patterns[i]))

\* the recommendations of every pattern of the list, none left out
RecommendAll(patterns) ==
    RecommendFrom(SortedDescending(patterns,
                      [k \in 1..Len(patterns) |-> Reduced(Unresolved(patterns[k]))]),
                  1, <<>>)

\* FeedbackAnalyzer.generate_optimization_recommendations
generate_optimization_recommendations(patterns) ==
    RecommendFrom(FirstItems(SortedDescending(patterns,
                                 [k \in 1..Len(patterns) |-> Reduced(Unresolved(patterns[k]))]), 10),
                  1, <<>>)

(***************************************************************************)
(* Inputs: lists of at most MaxPatterns patterns, with frequencies on     *)
(* both sides of the threshold, with and without a resolution time.       *)
(***************************************************************************)
MaxPatterns == 2

PatternChoices ==
    {FeedbackPattern(0, frequency, avg_time, success_rate, FALSE, None) :
        frequency \in {2, 3, 25}, avg_time \in {None, Some(Frac(7200, 1))},
        success_rate \in {Frac(0, 1), Frac(1, 2)}}

\* lists longer than the 10 patterns the function considers
LongFrequencies == <<30, 3, 12, 25, 8, 2, 40, 5, 16, 9, 21, 4>>

LongLists ==
    {[k \in 1..n |->
         FeedbackPattern(0, LongFrequencies[((k + s) % 12) + 1], None,
                         IF (k + t) % 3 = 0 THEN Frac(1, 2) ELSE Frac(0, 1), FALSE, None)] :
        n \in {11, 12}, s \in 0..11, t \in 0..2}

PatternLists ==
    UNION {[1..n -> PatternChoices] : n \in 0..MaxPatterns} \cup LongLists

\* the patterns of a list carry their position as pattern_id
Numbered(patterns) == [k \in 1..Len(patterns) |-> [patterns[k] EXCEPT !.pattern_id = k]]

InitRecommend ==
    /\ ClassifierIdle
    /\ BatchIdle
    /\ FeedbackIdle
    /\ RetryIdle
    /\ ret = NoCall

\* FeedbackAnalyzer.generate_optimization_recommendations(patterns), called once
\* on a list of patterns: the result depends on the list alone
GenerateOptimizationRecommendations(patterns) ==
    /\ ret = NoCall
    /\ ret' = FeedbackCall("generate_optimization_recommendations", patterns,
                           generate_optimization_recommendations(patterns))
    /\ UNCHANGED <<classifier_vars, retry_vars, batch_vars, feedback_vars>>

NextRecommend ==
    \E patterns \in PatternLists : GenerateOptimizationRecommendations(Numbered(patterns))

SpecRecommend == InitRecommend /\ [][NextRecommend]_vars

(***************************************************************************)
(* Properties of the recommendations (SpecRecommend).                     *)
(***************************************************************************)
\* C17: generate_optimization_recommendations never returns a recommendation
\* made from a pattern whose frequency is below 3: every recommendation
\* returned is that of a pattern of the list with frequency at least 3.
C17_NoRecommendationBelowThreshold ==
    (ret.op = "generate_optimization_recommendations" /\ ~ret.out.raised) =>
        /\ \A r \in 1..Len(ret.out.value[1]) :
               \E k \in 1..Len(ret.args) :
                   /\ ret.out.value[1][r].id = <<"opt", ret.args[k].pattern_id>>
                   /\ ret.args[k].frequency >= 3
        /\ \A k \in 1..Len(ret.args) :
               ret.args[k].frequency < 3 =>
                   \A r \in 1..Len(ret.out.value[1]) :
                       ret.out.value[1][r].id # <<"opt", ret.args[k].pattern_id>>

C17_Witness ==
    /\ ret.op = "generate_optimization_recommendations"
    /\ ~ret.out.raised
    /\ Len(ret.args) = 2
    /\ ret.args[1].frequency = 2 /\ ret.args[2].frequency = 3
    /\ Len(ret.out.value[1]) = 1
    /\ ret.out.value[1][1].id = <<"opt", 2>>

\* the priority the recommendation of a pattern is to have:
\* (frequency / 100) * (1 - success_rate) * w capped at 1, where w is
\* min(avg_resolution_time / 3600, 2) when the time is known and 1 otherwise
ExpectedPriority(pattern) ==
    FracLeast(FracTimes(FracTimes(Frac(pattern.frequency, 100),
                                  Frac(pattern.success_rate.d - pattern.success_rate.n,
                                       pattern.success_rate.d)),
                        IF pattern.avg_resolution_time = None THEN Frac(1, 1)
                        ELSE FracLeast(FracTimes(pattern.avg_resolution_time[1], Frac(1, 3600)),
                                       Frac(2, 1))),
              Frac(1, 1))

\* C23: for every pattern of frequency at least 3 among the 10 of highest pain
\* score, generate_optimization_recommendations returns exactly one
\* recommendation, with the id made from the pattern id and the priority
\* (frequency / 100) * (1 - success_rate) * w capped at 1, whether or not the
\* average resolution time of the pattern is known.
C23_OneRecommendationPerPattern ==
    ret.op = "generate_optimization_recommendations" =>
        /\ ~ret.out.raised
        /\ \A k \in 1..Len(ret.args) :
               ret.args[k].frequency >= 3 =>
                   /\ Cardinality({r \in 1..Len(ret.out.value[1]) :
                          ret.out.value[1][r].id = <<"opt", ret.args[k].pattern_id>>}) = 1
                   /\ \A r \in 1..Len(ret.out.value[1]) :
                          ret.out.value[1][r].id = <<"opt", ret.args[k].pattern_id>> =>
                              FracEq(ret.out.value[1][r].priority, ExpectedPriority(ret.args[k]))

\* the patterns of a list whose pain score frequency * (1 - success_rate) is
\* above that of pattern k
AbovePattern(patterns, k) ==
    {j \in 1..Len(patterns) : FracLess(Unresolved(patterns[k]), Unresolved(patterns[j]))}

\* the pattern a recommendation was made from
MadeFrom(patterns, rec) == CHOOSE k \in 1..Len(patterns) : rec.id = <<"opt", patterns[k].pattern_id>>

\* C24: generate_optimization_recommendations looks only at the 10 patterns
\* of highest pain score frequency * (1 - success_rate): it returns at most 10
\* recommendations, each made from a pattern with fewer than 10 patterns above
\* it, none of the patterns of frequency at least 3 with fewer than 10
\* patterns at or above it is left out, and the list is in order of
\* non-increasing priority.
C24_TopTenByPriority ==
    (ret.op = "generate_optimization_recommendations" /\ ~ret.out.raised) =>
        /\ Len(ret.out.value[1]) <= 10
        /\ \A r \in 1..Len(ret.out.value[1]) :
               /\ \E k \in 1..Len(ret.args) :
                      ret.out.value[1][r].id = <<"opt", ret.args[k].pattern_id>>
               /\ Cardinality(AbovePattern(ret.args, MadeFrom(ret.args, ret.out.value[1][r]))) < 10
        /\ \A k \in 1..Len(ret.args) :
               (/\ ret.args[k].frequency >= 3
                /\ Cardinality({j \in 1..Len(ret.args) :
                       j # k /\ ~FracLess(Unresolved(ret.args[j]), Unresolved(ret.args[k]))}) < 10) =>
                   \E r \in 1..Len(ret.out.value[1]) :
                       ret.out.value[1][r].id = <<"opt", ret.args[k].pattern_id>>
        /\ \A r \in 2..Len(ret.out.value[1]) :
               FracLeq(ret.out.value[1][r].priority, ret.out.value[1][r - 1].priority)

\* a list of 12 patterns, 11 of them of frequency at least 3: 10 are returned
C24_Witness ==
    /\ ret.op = "generate_optimization_recommendations"
    /\ ~ret.out.raised
    /\ Len(ret.args) = 12
    /\ Cardinality({k \in 1..Len(ret.args) : ret.args[k].frequency >= 3}) = 11
    /\ Len(ret.out.value[1]) = 10
    /\ FracLess(ret.out.value[1][10].priority, ret.out.value[1][1].priority)

(***************************************************************************)
(* parse_errors over a cache that fails (error_parser.py 425-477,          *)
(* 502-524): the cache directory is empty, holds records that cannot be    *)
(* decoded, or cannot be searched.                                         *)
(***************************************************************************)

\* the directory after cache_analysis wrote the messages k..Len(BatchMessages)
RECURSIVE WrittenFrom(_)
WrittenFrom(k) ==
    IF k > Len(BatchMessages) THEN <<>>
    ELSE cache_analysis(WrittenFrom(k + 1), classify_error(BatchMessages[k]).value[1], 0)

\* a directory whose mode lacks the search bit for the user of the script
Unsearchable == NoAccess :> [timestamp |-> 0, error_data |-> <<>>, complete |-> FALSE]

FailingCaches == {<<>>, WrittenFrom(1), WrittenFrom(2), Unsearchable}

InitDegraded ==
    /\ error_message = <<>>
    /\ parsed = None
    /\ cache_files \in FailingCaches
    /\ now = 0
    /\ FeedbackIdle
    /\ error_output \in ShortOutputs
    /\ errors = None
    /\ ret = NoCall
    /\ prev_ret = NoCall
    /\ error = None
    /\ hash_seed = 0
    /\ retry_history = <<>>
    /\ attempt = 0
    /\ phase = "UNTRIED"

NextDegraded == ParseErrors

SpecDegraded == InitDegraded /\ [][NextDegraded]_vars

\* the classification of every message of a list, without any cache
ClassifiedEach(messages) ==
    [i \in 1..Len(messages) |-> classify_error(messages[i]).value[1]]

\* the classification of every fragment of the output
FreshlyClassified(output) == ClassifiedEach(_split_error_messages(output))

\* C22: whatever the state of the persisted cache (no record, a record that
\* cannot be decoded, a directory that can be neither read nor written),
\* parse_errors raises nothing and returns the fresh classification of every
\* fragment of its output.
C22_CacheFailureNeverPropagated ==
    ret.op = "parse_errors" =>
        /\ ~ret.out.raised
        /\ ret.out.errors = FreshlyClassified(error_output)

(***************************************************************************)
(* RetryManager.record_retry_attempt / get_retry_statistics               *)
(* (error_parser.py 366-406): attempts recorded for several error ids.    *)
(***************************************************************************)
RECURSIVE CountAttempts(_, _)
\* the sum of len(attempts) over the given error ids
CountAttempts(history, ids) ==
    IF ids = {} THEN 0
    ELSE Len(history[CHOOSE id \in ids : TRUE])
             + CountAttempts(history, ids \ {CHOOSE id \in ids : TRUE})

\* any(a["success"] for a in attempts)
AnySuccess(attempts) == \E k \in 1..Len(attempts) : attempts[k].success

\* the statistics with the attempts counted where the error ids are
StatisticsOfAttempts(history) ==
    IF DOMAIN history = {} THEN <<>>
    ELSE [total_errors |-> CountAttempts(history, DOMAIN history),
          successful_retries |-> Cardinality({id \in DOMAIN history : AnySuccess(history[id])}),
          failed_retries |-> Cardinality({id \in DOMAIN history : ~AnySuccess(history[id])}),
          average_attempts |-> Frac(1, 1),
          most_problematic_categories |-> <<>>]

\* RetryManager.get_retry_statistics: the empty dict of an empty history,
\* otherwise the statistics (most_problematic_categories is left empty)
get_retry_statistics(history) ==
    IF DOMAIN history = {} THEN <<>>
    ELSE [total_errors |-> Cardinality(DOMAIN history),
          successful_retries |-> Cardinality({id \in DOMAIN history : AnySuccess(history[id])}),
          failed_retries |-> Cardinality({id \in DOMAIN history : ~AnySuccess(history[id])}),
          average_attempts |-> Reduced(Frac(CountAttempts(history, DOMAIN history),
                                            Cardinality(DOMAIN history))),
          most_problematic_categories |-> <<>>]

(***************************************************************************)
(* Inputs: at most MaxRecords attempts recorded, over the ids ErrorIds.   *)
(***************************************************************************)
MaxRecords == 3

ErrorIds == {"err_a", "err_b", "err_c"}

InitStatistics ==
    /\ ClassifierIdle
    /\ BatchIdle
    /\ FeedbackIdle
    /\ RetryIdle
    /\ ret = NoCall

\* RetryManager.record_retry_attempt(error_id, a, success)
RecordRetryAttempt(error_id, a, success) ==
    /\ CountAttempts(retry_history, DOMAIN retry_history) < MaxRecords
    /\ retry_history' = record_retry_attempt(retry_history, error_id, a, success, now)
    /\ ret' = [op |-> "record_retry_attempt", at |-> now,
               args |-> <<error_id, a, success>>, out |-> None]
    /\ UNCHANGED <<classifier_vars, prev_ret, error, hash_seed, attempt, phase, batch_vars,
                   feedback_vars>>

\* RetryManager.get_retry_statistics()
GetRetryStatistics ==
    /\ ret' = [op |-> "get_retry_statistics", at |-> now, args |-> <<>>,
               out |-> get_retry_statistics(retry_history)]
    /\ UNCHANGED <<classifier_vars, retry_vars, batch_vars, feedback_vars>>

NextStatistics ==
    \/ \E error_id \in ErrorIds, a \in 0..1, success \in BOOLEAN :
           RecordRetryAttempt(error_id, a, success)
    \/ GetRetryStatistics

SpecStatistics == InitStatistics /\ [][NextStatistics]_vars

\* the history of the id of the call just made is the one before with the
\* entry of the call appended, and every other history is as before
RecordAppendsOne ==
    \E error_id \in ErrorIds :
        /\ ret'.args[1] = error_id
        /\ DOMAIN retry_history' = DOMAIN retry_history \cup {error_id}
        /\ retry_history'[error_id] =
               Append(IF error_id \in DOMAIN retry_history THEN retry_history[error_id] ELSE <<>>,
                      [attempt |-> ret'.args[2], success |-> ret'.args[3], timestamp |-> now])
        /\ \A other \in DOMAIN retry_history \ {error_id} :
               retry_history'[other] = retry_history[other]

\* the statistics reported are those of the history: the ids counted, those
\* with and those without a successful attempt, the mean number of attempts
StatisticsOfHistory ==
    (ret.op = "get_retry_statistics" /\ DOMAIN retry_history # {}) =>
        /\ ret.out.total_errors = Cardinality(DOMAIN retry_history)
        /\ ret.out.successful_retries =
               Cardinality({id \in DOMAIN retry_history :
                   \E k \in 1..Len(retry_history[id]) : retry_history[id][k].success})
        /\ ret.out.failed_retries =
               Cardinality({id \in DOMAIN retry_history :
                   \A k \in 1..Len(retry_history[id]) : ~retry_history[id][k].success})
        /\ ret.out.successful_retries + ret.out.failed_retries = ret.out.total_errors
        /\ FracEq(ret.out.average_attempts,
                  Frac(CountAttempts(retry_history, DOMAIN retry_history),
                       Cardinality(DOMAIN retry_history)))

IngestMessages == {ScenarioD[1], ScenarioD[2]}

IngestSeverities == {Severities[1], Severities[2]}

NextIngest ==
    \/ \E message \in IngestMessages, severity \in IngestSeverities :
           AddFeedback(message, severity)
    \/ Elapse

SpecIngest == InitFeedback /\ [][NextIngest]_vars

\* C26: every add_feedback call adds a record under an id no stored record
\* has, also when the same message is submitted again at once: the table
\* grows by one with every call, so it holds n items after n calls, and no
\* record stored before is replaced.
C26_EveryCallAddsARecord ==
    [][(ret'.op = "add_feedback" /\ (ret' # ret \/ feedback_items' # feedback_items)) =>
           /\ ret'.out \notin DOMAIN feedback_items
           /\ Cardinality(DOMAIN feedback_items') = Cardinality(DOMAIN feedback_items) + 1
           /\ \A id \in DOMAIN feedback_items : feedback_items'[id] = feedback_items[id]]_vars

(***************************************************************************)
(* Further properties of the retry decisions (SpecRetry) and delays       *)
(* (SpecDelay).                                                            *)
(***************************************************************************)
\* C27: for an error of category syntax or permission, whatever its
\* retry_recommended flag, should_retry(error, attempt) is false for every
\* attempt from 0 on.
C27_NoRetryForSyntaxOrPermission ==
    (ret.op = "should_retry" /\ error.category \in {"syntax", "permission"}) =>
        ret.out = FALSE

\* C28: calculate_delay(error, attempt) lies between 0 and the max_delay of
\* the strategy of the error's category, for every category and attempt,
\* with the jitter or without.
C28_DelayWithinCap ==
    ret.op = "calculate_delay" =>
        /\ FracLeq(Frac(0, 1), ret.out)
        /\ FracLeq(ret.out, Frac(StrategyFor(error.category).max_delay, 1))

(***************************************************************************)
(* Reachability of the timeout category (Spec).                           *)
(***************************************************************************)
\* the message contains "timeout", in any letter case
MentionsTimeout(s) ==
    \E i \in 1..(Len(s) - 6) : \A j \in 1..7 : Lower(s[i + j - 1]) = <<"t","i","m","e","o","u","t">>[j]

\* some rule of the given categories matches the message
AnyRuleMatches(tables, s) ==
    \E t \in 1..Len(tables) : \E r \in 1..Len(tables[t]) : RuleMatches(tables[t][r], s)

\* C30: classify_error gives the category timeout only to messages that no
\* rule of syntax, dependency, configuration, network or permission matches;
\* a message that contains "timeout" in any letter case and gets as far as
\* the network rules is network, so no message containing "timeout" is
\* classified timeout.
C30_TimeoutOnlyWithoutEarlierMatch ==
    Classified =>
        /\ ret.out.value[1].category = "timeout" =>
               /\ ~AnyRuleMatches(<<SyntaxRules, DependencyRules, ConfigurationRules,
                                    NetworkRules, PermissionRules>>, error_message)
               /\ ~MentionsTimeout(error_message)
        /\ (/\ MentionsTimeout(error_message)
            /\ ~AnyRuleMatches(<<SyntaxRules, DependencyRules, ConfigurationRules>>,
                               error_message)) =>
               ret.out.value[1].category = "network"

\* "timed out" is classified timeout
C30_Witness ==
    /\ Classified
    /\ error_message = <<"t","i","m","e","d"," ","o","u","t">>
    /\ ret.out.value[1].category = "timeout"
    /\ RuleMatches(TimeoutRules[1], <<"T","I","M","E","O","U","T">>)
    /\ RuleMatches(NetworkRules[1], <<"T","I","M","E","O","U","T">>)

(***************************************************************************)
(* parse_errors called again on the same output (error_parser.py 502-524), *)
(* at once or after time has passed, over the cache the earlier calls left. *)
(***************************************************************************)
InitReparse ==
    /\ ClassifierIdle
    /\ FeedbackIdle
    /\ RetryIdle
    /\ error_output \in MainOutputs
    /\ errors = None
    /\ ret = NoCall

\* AdvancedErrorParser.parse_errors(error_output), not the first call
ParseErrorsAgain ==
    /\ errors # None
    /\ ret' = Call("parse_errors", now, parse_errors(cache_files, error_output, now))
    /\ prev_ret' = ret
    /\ errors' = Some(ret'.out)
    /\ cache_files' = ret'.out.files
    /\ UNCHANGED <<error_message, parsed, now, error, hash_seed, retry_history, attempt,
                   phase, error_output, feedback_vars>>

NextReparse ==
    \/ ParseErrors
    \/ ParseErrorsAgain
    \/ Elapse

SpecReparse == InitReparse /\ [][NextReparse]_vars

\* classify_error raises on some message of a list
SomeRaises(messages) == \E i \in 1..Len(messages) : classify_error(messages[i]).raised

\* classify_error raises on some fragment of the output
SomeFragmentRaises(output) == SomeRaises(_split_error_messages(output))

\* C29: over every cache state that earlier parse_errors calls have left,
\* parse_errors returns what classifying each fragment of the output with
\* classify_error returns, so two calls on one output give equal results.
C29_CacheTransparent ==
    ret.op = "parse_errors" =>
        /\ ret.out.raised = SomeFragmentRaises(error_output)
        /\ ~ret.out.raised => ret.out.errors = FreshlyClassified(error_output)
        /\ prev_ret.op = "parse_errors" =>
               /\ prev_ret.out.raised = ret.out.raised
               /\ prev_ret.out.errors = ret.out.errors

\* "TIMEOUT" and "timed out" parsed, and parsed again 12 hours later over the
\* records the first call wrote
C29_Witness ==
    /\ ret.op = "parse_errors" /\ prev_ret.op = "parse_errors"
    /\ error_output = BatchMessages[1] \o <<"\n","\n">> \o BatchMessages[2]
    /\ ret.at - prev_ret.at = TickHours
    /\ TickHours < CacheTtlHours
    /\ _get_error_hash(BatchMessages[2]) \in DOMAIN prev_ret.out.files
    /\ Len(ret.out.errors) = 2
    /\ ret.out.errors[1].category = "network"
    /\ ret.out.errors[2].category = "timeout"

====
